---- MODULE Spec2Model ----
(***************************************************************************)
(* A model of the pi-gadget UI shell: the on-screen keyboard engine        *)
(* (src/ui_keyboard.py), the hosted mini-app loader (src/apps/loader.py)   *)
(* and the event dispatch of the main loop (src/main.py).                  *)
(*                                                                         *)
(* Strings of the program whose characters matter (texts, key labels,      *)
(* display names, file names) are sequences of Unicode code points, so     *)
(* that len(), upper(), lower(), strip() and the ordering of strings are   *)
(* computed as Python computes them.                                       *)
(***************************************************************************)
EXTENDS Integers, Sequences, FiniteSets, TLC

VARIABLES
    kb,        \* the OnScreenKeyboard object's mutable fields
    kb_pre,    \* history: kb before the last keyboard operation
    kb_op,     \* history: the last keyboard operation ("start", "cycle" or the event)
    kb_ret,    \* history: what the last handle_event returned, <<action, text>>
    tg,        \* history: the current run of consecutive mode-toggle activations
    kb_args,   \* history: the arguments of the last keyboard operation, if it was start
    ld,        \* one call of load_app: its inputs, its position and its outcome
    ra,        \* one call of run_app: its inputs, its position and what it raised
    gps,       \* a GpsApp instance: its fields, its last poll and what it raised
    \* main(): the locals of the main loop and the console globals
    state, root_entries, selected_root_index, current_dir, current_dir_name,
    list_entries, selected_list_index, list_scroll,
    current_app, current_app_module, selected_option_index,
    keyboard_mode, keyboard_target, console_lines, console_scroll,
    fs,        \* the menu file system below MENU_FS_DIR
    ops,       \* the operations of the Options menu finished so far
    ev,        \* the event of the last iteration of the main loop ("None": none)
    pre_state, \* history: state before that iteration
    pre_ops,   \* history: ops before that iteration
    at_open,   \* history: the list view when the open Options menu was opened
    typed,     \* history: the characters the open keyboard session appended
    last_op,   \* history: the last finished operation of the Options menu
    menu_dirty, list_dirty, options_dirty, keyboard_dirty, console_dirty,
    calls,     \* history: the calls the dispatch of this iteration made on the hosted
               \* app, and its call of run_app
    continued, \* the dispatch of this iteration left the iteration with continue
    \* the main loop around the dispatch
    pc,        \* the position in the iteration: "input" (lines 1010-1254) or "draw" (1256-1296)
    prev_button_states,
    polled,    \* history of SpecInput: the prev_states the last read_buttons call was given
    since_input, \* now - last_input_time
    since_clock, \* now - last_clock_draw
    drawn,     \* history: the calls the draw step of this iteration made
    shown      \* history: the screen, that is the state and the arguments of the last
               \* draw call

kbvars == <<kb, kb_pre, kb_op, kb_ret, tg, kb_args>>
\* what the main loop never touches: the histories of SpecKbd and SpecLoader
kbhist == <<kb_pre, kb_op, kb_ret, tg, kb_args, ld, ra, gps>>
dirvars == <<current_dir, current_dir_name>>
listvars == <<list_entries, selected_list_index, list_scroll>>
appvars == <<current_app, current_app_module>>
sessvars == <<keyboard_mode, keyboard_target>>
consvars == <<console_lines, console_scroll>>
dirtyvars == <<menu_dirty, list_dirty, options_dirty, keyboard_dirty, console_dirty>>
\* what the dispatch of an event never touches
loopvars == <<pc, prev_button_states, polled, since_input, since_clock, drawn, shown>>
\* what read_buttons never touches
corevars == <<state, root_entries, selected_root_index, dirvars, listvars, appvars,
              selected_option_index, sessvars, consvars, fs, ops, pre_state,
              pre_ops, at_open, typed, last_op, dirtyvars, calls, continued>>
mainvars == <<corevars, ev, loopvars>>
vars == <<kbvars, ld, ra, gps, mainvars>>

(***************************************************************************)
(* Bounds of the model.                                                    *)
(***************************************************************************)
\* the largest max_len a keyboard session of SpecKbd is started with, and the
\* longest text a keyboard session of SpecKbd and of Spec appends to
MaxLen == 2
\* the largest number of attributes of an app module load_app scans
MaxAttrs == 2
\* the largest number of controls read pressed by one poll of SpecInput
MaxPressed == 2
\* the longest time without an input event, in half seconds, that SpecTick
\* follows tick by tick; beyond it the next iteration comes IDLE_TIMEOUT later
MaxQuiet == 1
\* the number of operations of the Options menu (a deletion, a keyboard
\* session) after which a run of the main loop ends
MaxOps == 1
\* the longest text, in characters, a command run by SpecRunApp prints
MaxText == 3

(***************************************************************************)
(* Characters and strings.                                                 *)
(***************************************************************************)
\* Python's None where a string is expected (no text is a single element
\* that is no code point)
None == << -1 >>

RECURSIVE Rep(_, _)
Rep(c, n) == IF n = 0 THEN <<>> ELSE <<c>> \o Rep(c, n - 1)

\* str.upper() / str.lower() of one character of the layouts: ASCII letters
\* and the Cyrillic letters U+0410..U+044F are 32 apart; digits and symbols
\* have no case
Upper(c) ==
    IF (c >= 97 /\ c <= 122) \/ (c >= 1072 /\ c <= 1103) THEN c - 32 ELSE c

Lower(c) ==
    IF (c >= 65 /\ c <= 90) \/ (c >= 1040 /\ c <= 1071) THEN c + 32 ELSE c

(***************************************************************************)
(* ui_keyboard.py: layout data.  Each key label is a string; the main rows *)
(* are list("qwertyuiop") etc., one single-character label per key.        *)
(***************************************************************************)
letters_en_rows ==
  << << <<113>>, <<119>>, <<101>>, <<114>>, <<116>>, <<121>>, <<117>>, <<105>>, <<111>>, <<112>> >>,
     << <<97>>, <<115>>, <<100>>, <<102>>, <<103>>, <<104>>, <<106>>, <<107>>, <<108>> >>,
     << <<122>>, <<120>>, <<99>>, <<118>>, <<98>>, <<110>>, <<109>> >> >>

letters_ru_rows ==
  << << <<1081>>, <<1094>>, <<1091>>, <<1082>>, <<1077>>, <<1085>>, <<1075>>, <<1096>>, <<1097>>, <<1079>> >>,
     << <<1092>>, <<1099>>, <<1074>>, <<1072>>, <<1087>>, <<1088>>, <<1086>>, <<1083>>, <<1076>> >>,
     << <<1103>>, <<1095>>, <<1089>>, <<1084>>, <<1080>>, <<1090>>, <<1100>>, <<1073>>, <<1102>> >> >>

num_rows ==
  << << <<49>>, <<50>>, <<51>>, <<52>>, <<53>>, <<54>>, <<55>>, <<56>>, <<57>>, <<48>> >>,
     << <<45>>, <<95>>, <<64>>, <<46>>, <<44>>, <<63>> >>,
     << <<33>>, <<63>>, <<58>>, <<59>>, <<40>>, <<41>> >> >>

\* the labels of the system row: "123", "ABC", "Shift", "space", the
\* backspace sign U+232B and "return"
Lbl123    == <<49, 50, 51>>
LblABC    == <<65, 66, 67>>
LblShift  == <<83, 104, 105, 102, 116>>
LblSpace  == <<115, 112, 97, 99, 101>>
LblBksp   == <<9003>>
LblReturn == <<114, 101, 116, 117, 114, 110>>

\* self.mode.startswith("letters")
IsLetters(mode) == mode \in {"letters_en", "letters_ru"}

\* _get_layout_rows: the three main rows of the mode, cased by shift in the
\* letters modes, then the system row
GetLayoutRowsLower(mode, shift) ==
    LET base_rows == IF mode = "letters_en" THEN letters_en_rows
                     ELSE IF mode = "letters_ru" THEN letters_ru_rows
                     ELSE num_rows
        mode_label == IF mode = "num_sym" THEN LblABC ELSE Lbl123
        system_row == <<mode_label, LblShift, LblSpace, LblBksp, LblReturn>>
    IN  base_rows \o <<system_row>>
GetLayoutRows(mode, shift) ==
    LET base_rows == IF mode = "letters_en" THEN letters_en_rows
                     ELSE IF mode = "letters_ru" THEN letters_ru_rows
                     ELSE num_rows
        Cased(ch) == IF IsLetters(mode)
                     THEN (IF shift THEN <<Upper(ch[1])>> ELSE <<Lower(ch[1])>>)
                     ELSE ch
        main == [r \in 1..Len(base_rows) |->
                    [c \in 1..Len(base_rows[r]) |-> Cased(base_rows[r][c])]]
        mode_label == IF mode = "num_sym" THEN LblABC ELSE Lbl123
        system_row == <<mode_label, LblShift, LblSpace, LblBksp, LblReturn>>
    IN  main \o <<system_row>>

Rows(k) == GetLayoutRows(k.mode, k.shift)

\* _get_current_key_label: the label under the cursor, None outside the grid.
\* Rows and columns are 0-based in the program, sequences 1-based here.
GetCurrentKeyLabel(k) ==
    LET rows == Rows(k)
    IN  IF k.cursor_row < 0 \/ k.cursor_row >= Len(rows) THEN None
        ELSE IF k.cursor_col < 0 \/ k.cursor_col >= Len(rows[k.cursor_row + 1]) THEN None
        ELSE rows[k.cursor_row + 1][k.cursor_col + 1]

Min(a, b) == IF a <= b THEN a ELSE b
Max(a, b) == IF a >= b THEN a ELSE b

\* OnScreenKeyboard.__init__
KbNew ==
    [prompt |-> "Text", text |-> <<>>, max_len |-> 64, mode |-> "letters_en",
     shift |-> FALSE, cursor_row |-> 0, cursor_col |-> 0]

\* OnScreenKeyboard.start: initial_text or "" is taken as it is
StartKeepsView(k, prompt, initial_text, max_len) ==
    [k EXCEPT !.prompt = prompt,
              !.text = IF initial_text = None \/ initial_text = <<>> THEN <<>>
                       ELSE initial_text,
              !.max_len = max_len]
Start(k, prompt, initial_text, max_len) ==
    [prompt |-> prompt,
     text |-> IF initial_text = None \/ initial_text = <<>> THEN <<>> ELSE initial_text,
     max_len |-> max_len, mode |-> "letters_en",
     shift |-> FALSE, cursor_row |-> 0, cursor_col |-> 0]

\* OnScreenKeyboard.cycle_language: only the mode is assigned
CycleLanguageResetsShift(k) ==
    IF k.mode = "letters_en" THEN [k EXCEPT !.mode = "letters_ru", !.shift = FALSE]
    ELSE [k EXCEPT !.mode = "letters_en", !.shift = FALSE]
CycleLanguageStuck(k) == k
CycleLanguage(k) ==
    IF k.mode = "num_sym" THEN [k EXCEPT !.mode = "letters_en"]
    ELSE IF k.mode = "letters_en" THEN [k EXCEPT !.mode = "letters_ru"]
    ELSE IF k.mode = "letters_ru" THEN [k EXCEPT !.mode = "letters_en"]
    ELSE k

\* handle_event, the navigation branch
NavigateUnclamped(k, event) ==
    LET rows == Rows(k)
        max_row == Len(rows) - 1
    IN  IF event = "UP" /\ k.cursor_row > 0
            THEN [k EXCEPT !.cursor_row = @ - 1]
        ELSE IF event = "DOWN" /\ k.cursor_row < max_row
            THEN [k EXCEPT !.cursor_row = @ + 1]
        ELSE IF event = "LEFT" /\ k.cursor_col > 0
            THEN [k EXCEPT !.cursor_col = @ - 1]
        ELSE IF event = "RIGHT"
            THEN (IF k.cursor_col < Len(rows[k.cursor_row + 1]) - 1
                  THEN [k EXCEPT !.cursor_col = @ + 1] ELSE k)
        ELSE k
NavigateWraps(k, event) ==
    LET rows == Rows(k)
        max_row == Len(rows) - 1
        moved ==
            IF event = "UP"
                THEN [k EXCEPT !.cursor_row = IF @ > 0 THEN @ - 1 ELSE max_row]
            ELSE IF event = "DOWN" /\ k.cursor_row < max_row
                THEN [k EXCEPT !.cursor_row = @ + 1]
            ELSE IF event = "LEFT" /\ k.cursor_col > 0
                THEN [k EXCEPT !.cursor_col = @ - 1]
            ELSE IF event = "RIGHT"
                THEN (IF k.cursor_col < Len(rows[k.cursor_row + 1]) - 1
                      THEN [k EXCEPT !.cursor_col = @ + 1] ELSE k)
            ELSE k
        rowlen == Len(rows[moved.cursor_row + 1])
    IN  IF moved.cursor_col >= rowlen
        THEN [moved EXCEPT !.cursor_col = rowlen - 1]
        ELSE moved
Navigate(k, event) ==
    LET rows == Rows(k)
        max_row == Len(rows) - 1
        moved ==
            IF event = "UP" /\ k.cursor_row > 0
                THEN [k EXCEPT !.cursor_row = @ - 1]
            ELSE IF event = "DOWN" /\ k.cursor_row < max_row
                THEN [k EXCEPT !.cursor_row = @ + 1]
            ELSE IF event = "LEFT" /\ k.cursor_col > 0
                THEN [k EXCEPT !.cursor_col = @ - 1]
            ELSE IF event = "RIGHT"
                THEN (IF k.cursor_col < Len(rows[k.cursor_row + 1]) - 1
                      THEN [k EXCEPT !.cursor_col = @ + 1] ELSE k)
            ELSE k
        rowlen == Len(rows[moved.cursor_row + 1])
    IN  IF moved.cursor_col >= rowlen
        THEN [moved EXCEPT !.cursor_col = rowlen - 1]
        ELSE moved

\* handle_event, the mode toggle key ("123" / "ABC")
ToggleModeOneWay(k) ==
    LET m == [k EXCEPT !.mode = "num_sym"]
        r == Min(m.cursor_row, Len(Rows(m)) - 1)
        c == Min(m.cursor_col, Len(Rows(m)[r + 1]) - 1)
    IN  [m EXCEPT !.cursor_row = r, !.cursor_col = c]
ToggleModeToSecondary(k) ==
    LET m == [k EXCEPT !.mode = IF k.mode = "num_sym" THEN "letters_ru" ELSE "num_sym"]
    IN  m
ToggleMode(k) ==
    LET m == [k EXCEPT !.mode = IF k.mode = "num_sym" THEN "letters_en" ELSE "num_sym"]
        r == Min(m.cursor_row, Len(Rows(m)) - 1)
        c == Min(m.cursor_col, Len(Rows(m)[r + 1]) - 1)
    IN  [m EXCEPT !.cursor_row = r, !.cursor_col = c]

\* handle_event, the backspace key: self.text[:-1] when the text is not empty
BackspaceClears(k) == [k EXCEPT !.text = <<>>]
Backspace(k) ==
    IF k.text /= <<>> THEN [k EXCEPT !.text = SubSeq(@, 1, Len(@) - 1)] ELSE k

\* handle_event(event) -> (action, text): the new fields of the object and
\* the returned pair; action "none" is Python's None
HandleEventSilentMoves(k, event) ==
    IF event \in {"UP", "DOWN", "LEFT", "RIGHT"}
        THEN [kb |-> Navigate(k, event), ret |-> <<"none", None>>]
    ELSE IF event = "CENTER" THEN
        LET label == GetCurrentKeyLabel(k)
        IN  IF label = None THEN [kb |-> k, ret |-> <<"none", None>>]
            ELSE IF label = LblSpace THEN
                [kb |-> IF Len(k.text) < k.max_len
                        THEN [k EXCEPT !.text = @ \o <<32>>] ELSE k,
                 ret |-> <<"redraw", None>>]
            ELSE IF label = LblBksp THEN
                [kb |-> Backspace(k), ret |-> <<"redraw", None>>]
            ELSE IF label = LblReturn THEN
                [kb |-> k, ret |-> <<"done", k.text>>]
            ELSE IF label \in {Lbl123, LblABC} THEN
                [kb |-> ToggleMode(k), ret |-> <<"redraw", None>>]
            ELSE IF label = LblShift THEN
                [kb |-> [k EXCEPT !.shift = ~@], ret |-> <<"redraw", None>>]
            ELSE IF Len(label) = 1 /\ Len(k.text) < k.max_len THEN
                [kb |-> [k EXCEPT !.text = @ \o label], ret |-> <<"redraw", None>>]
            ELSE [kb |-> k, ret |-> <<"none", None>>]
    ELSE [kb |-> k, ret |-> <<"none", None>>]
HandleEventDoneWithoutText(k, event) ==
    IF event \in {"UP", "DOWN", "LEFT", "RIGHT"}
        THEN [kb |-> Navigate(k, event), ret |-> <<"redraw", None>>]
    ELSE IF event = "CENTER" THEN
        LET label == GetCurrentKeyLabel(k)
        IN  IF label = None THEN [kb |-> k, ret |-> <<"none", None>>]
            ELSE IF label = LblSpace THEN
                [kb |-> IF Len(k.text) < k.max_len
                        THEN [k EXCEPT !.text = @ \o <<32>>] ELSE k,
                 ret |-> <<"redraw", None>>]
            ELSE IF label = LblBksp THEN
                [kb |-> Backspace(k), ret |-> <<"redraw", None>>]
            ELSE IF label = LblReturn THEN
                [kb |-> k, ret |-> <<"done", None>>]
            ELSE IF label \in {Lbl123, LblABC} THEN
                [kb |-> ToggleMode(k), ret |-> <<"redraw", None>>]
            ELSE IF label = LblShift THEN
                [kb |-> [k EXCEPT !.shift = ~@], ret |-> <<"redraw", None>>]
            ELSE IF Len(label) = 1 /\ Len(k.text) < k.max_len THEN
                [kb |-> [k EXCEPT !.text = @ \o label], ret |-> <<"redraw", None>>]
            ELSE [kb |-> k, ret |-> <<"none", None>>]
    ELSE [kb |-> k, ret |-> <<"none", None>>]
HandleEventRedraws(k, event) ==
    IF event \in {"UP", "DOWN", "LEFT", "RIGHT"}
        THEN [kb |-> Navigate(k, event), ret |-> <<"redraw", None>>]
    ELSE IF event = "CENTER" THEN
        LET label == GetCurrentKeyLabel(k)
        IN  IF label = None THEN [kb |-> k, ret |-> <<"none", None>>]
            ELSE IF label = LblSpace THEN
                [kb |-> IF Len(k.text) < k.max_len
                        THEN [k EXCEPT !.text = @ \o <<32>>] ELSE k,
                 ret |-> <<"redraw", None>>]
            ELSE IF label = LblBksp THEN
                [kb |-> Backspace(k), ret |-> <<"redraw", None>>]
            ELSE IF label = LblReturn THEN
                [kb |-> k, ret |-> <<"done", k.text>>]
            ELSE IF label \in {Lbl123, LblABC} THEN
                [kb |-> ToggleMode(k), ret |-> <<"redraw", None>>]
            ELSE IF label = LblShift THEN
                [kb |-> [k EXCEPT !.shift = ~@], ret |-> <<"redraw", None>>]
            ELSE IF Len(label) = 1 THEN
                [kb |-> IF Len(k.text) < k.max_len
                        THEN [k EXCEPT !.text = @ \o label] ELSE k,
                 ret |-> <<"redraw", None>>]
            ELSE [kb |-> k, ret |-> <<"none", None>>]
    ELSE [kb |-> k, ret |-> <<"none", None>>]
HandleEvent(k, event) ==
    IF event \in {"UP", "DOWN", "LEFT", "RIGHT"}
        THEN [kb |-> Navigate(k, event), ret |-> <<"redraw", None>>]
    ELSE IF event = "CENTER" THEN
        LET label == GetCurrentKeyLabel(k)
        IN  IF label = None THEN [kb |-> k, ret |-> <<"none", None>>]
            ELSE IF label = LblSpace THEN
                [kb |-> IF Len(k.text) < k.max_len
                        THEN [k EXCEPT !.text = @ \o <<32>>] ELSE k,
                 ret |-> <<"redraw", None>>]
            ELSE IF label = LblBksp THEN
                [kb |-> Backspace(k), ret |-> <<"redraw", None>>]
            ELSE IF label = LblReturn THEN
                [kb |-> k, ret |-> <<"done", k.text>>]
            ELSE IF label \in {Lbl123, LblABC} THEN
                [kb |-> ToggleMode(k), ret |-> <<"redraw", None>>]
            ELSE IF label = LblShift THEN
                [kb |-> [k EXCEPT !.shift = ~@], ret |-> <<"redraw", None>>]
            ELSE IF Len(label) = 1 /\ Len(k.text) < k.max_len THEN
                [kb |-> [k EXCEPT !.text = @ \o label], ret |-> <<"redraw", None>>]
            ELSE [kb |-> k, ret |-> <<"none", None>>]
    ELSE [kb |-> k, ret |-> <<"none", None>>]

(***************************************************************************)
(* main.py: the menu file system.                                          *)
(*                                                                         *)
(* fs maps each existing path below MENU_FS_DIR (a sequence of file names, *)
(* <<>> is MENU_FS_DIR itself) to its node: a folder with the content of   *)
(* its .meta.json, or an .app file with the content of its JSON.  In a     *)
(* meta, ok is whether the file exists and parses; an absent key is None   *)
(* for display_name and NoPrio for sort_priority.                          *)
(***************************************************************************)
NoPrio == -1

Meta(ok, name, visible, prio, module, exec) ==
    [ok |-> ok, name |-> name, visible |-> visible, prio |-> prio,
     module |-> module, exec |-> exec]

NoMeta == Meta(FALSE, None, TRUE, NoPrio, "", "")

Folder(meta) == [type |-> "folder", meta |-> meta]
AppFile(meta) == [type |-> "app", meta |-> meta]

DotApp == <<46, 97, 112, 112>>

Exists(f, p) == p \in DOMAIN f
IsDir(f, p) == p = <<>> \/ (Exists(f, p) /\ f[p].type = "folder")
IsFile(f, p) == Exists(f, p) /\ f[p].type = "app"
Dirname(p) == SubSeq(p, 1, Len(p) - 1)
Basename(p) == p[Len(p)]
IsPrefix(d, p) == Len(d) <= Len(p) /\ SubSeq(p, 1, Len(d)) = d

\* os.listdir
ListDir(f, d) == {Basename(p) : p \in {q \in DOMAIN f : Len(q) = Len(d) + 1 /\ IsPrefix(d, q)}}

\* the order of Python strings: by code point, a proper prefix first
RECURSIVE StrLess(_, _)
StrLess(a, b) ==
    IF b = <<>> THEN FALSE
    ELSE IF a = <<>> THEN TRUE
    ELSE IF a[1] /= b[1] THEN a[1] < b[1]
    ELSE StrLess(Tail(a), Tail(b))

\* sorted(names)
RECURSIVE SortedNames(_)
SortedNames(S) ==
    IF S = {} THEN <<>>
    ELSE LET m == CHOOSE x \in S : \A y \in S \ {x} : StrLess(x, y)
         IN  <<m>> \o SortedNames(S \ {m})

\* str.lower() of a string, keeping the case (the mutant)
LowerStr(t) == [i \in 1..Len(t) |-> Lower(t[i])]

\* str.strip(): leading and trailing spaces removed
RECURSIVE LStrip(_)
LStrip(t) == IF t /= <<>> /\ t[1] = 32 THEN LStrip(Tail(t)) ELSE t
RECURSIVE RStrip(_)
RStrip(t) == IF t /= <<>> /\ t[Len(t)] = 32 THEN RStrip(SubSeq(t, 1, Len(t) - 1)) ELSE t
StripNothing(t) == t
Strip(t) == RStrip(LStrip(t))

\* name.endswith(".app") and os.path.splitext(name)[0]
EndsWithApp(name) ==
    Len(name) >= 4 /\ SubSeq(name, Len(name) - 3, Len(name)) = DotApp
SplitExtBase(name) ==
    IF EndsWithApp(name) /\ Len(name) > 4 THEN SubSeq(name, 1, Len(name) - 4) ELSE name

\* sanitize_fs_name: strip, spaces to underscores, keep [A-Za-z0-9_-]
AllowedChar(c) ==
    \/ (c >= 97 /\ c <= 122) \/ (c >= 65 /\ c <= 90) \/ (c >= 48 /\ c <= 57)
    \/ c = 95 \/ c = 45
RECURSIVE Filter(_)
Filter(t) ==
    IF t = <<>> THEN <<>>
    ELSE (IF AllowedChar(t[1]) THEN <<t[1]>> ELSE <<>>) \o Filter(Tail(t))
SanitizeFsName(name) ==
    LET n == Strip(name)
    IN  IF n = <<>> THEN <<>>
        ELSE Filter([i \in 1..Len(n) |-> IF n[i] = 32 THEN 95 ELSE n[i]])

\* str(i) for i >= 0
RECURSIVE DecStr(_)
DecStr(i) == IF i < 10 THEN <<48 + i>> ELSE DecStr(i \div 10) \o <<48 + (i % 10)>>

\* the entry dicts of load_list_entries (the icon image is not modelled)
Entry(type, path, display_name, sort_priority) ==
    [type |-> type, path |-> path, display_name |-> display_name,
     sort_priority |-> sort_priority]

\* the sort key (sort_priority, display_name.lower())
KeyLess(a, b) ==
    \/ a.sort_priority < b.sort_priority
    \/ /\ a.sort_priority = b.sort_priority
       /\ StrLess(LowerStr(a.display_name), LowerStr(b.display_name))

\* list.sort(key=...): stable, so an entry goes behind the entries whose key
\* is not greater
RECURSIVE InsertSorted(_, _)
InsertSorted(sorted, e) ==
    IF sorted = <<>> THEN <<e>>
    ELSE IF KeyLess(e, sorted[1]) THEN <<e>> \o sorted
    ELSE <<sorted[1]>> \o InsertSorted(Tail(sorted), e)
RECURSIVE StableSort(_)
StableSort(es) ==
    IF es = <<>> THEN <<>>
    ELSE InsertSorted(StableSort(SubSeq(es, 1, Len(es) - 1)), es[Len(es)])

\* load_list_entries(dir_path)
LoadListEntries(f, d) ==
    IF ~IsDir(f, d) THEN <<>>
    ELSE
      LET names == SortedNames(ListDir(f, d))
          full(name) == d \o <<name>>
          FolderShown(name) ==
              IsDir(f, full(name)) /\
              (f[full(name)].meta.ok => f[full(name)].meta.visible)
          FolderEntry(name) ==
              LET m == f[full(name)].meta
              IN  Entry("folder", full(name),
                        IF m.ok /\ m.name /= None THEN m.name ELSE name,
                        IF m.ok /\ m.prio /= NoPrio THEN m.prio ELSE 5000)
          AppShown(name) == IsFile(f, full(name)) /\ EndsWithApp(name)
          AppEntry(name) ==
              LET m == f[full(name)].meta
              IN  Entry("app", full(name),
                        IF m.ok /\ m.name /= None THEN m.name ELSE SplitExtBase(name),
                        IF m.ok /\ m.prio /= NoPrio THEN m.prio ELSE 9000)
          folders == SelectSeq(names, FolderShown)
          apps == SelectSeq(names, AppShown)
      IN  StableSort([i \in 1..Len(folders) |-> FolderEntry(folders[i])]
                     \o [i \in 1..Len(apps) |-> AppEntry(apps[i])])

\* load_root_menu_entries(): the visible folders of MENU_FS_DIR, at most 6
LoadRootMenuEntries(f) ==
    LET names == SortedNames(ListDir(f, <<>>))
        Shown(name) ==
            IsDir(f, <<name>>) /\ (f[<<name>>].meta.ok => f[<<name>>].meta.visible)
        RootEntry(name) ==
            LET m == f[<<name>>].meta
            IN  Entry("folder", <<name>>,
                      IF m.ok /\ m.name /= None THEN m.name ELSE name,
                      IF m.ok /\ m.prio /= NoPrio THEN m.prio ELSE 9999)
        folders == SelectSeq(names, Shown)
        all == StableSort([i \in 1..Len(folders) |-> RootEntry(folders[i])])
    IN  SubSeq(all, 1, Min(Len(all), 6))

(***************************************************************************)
(* main.py: the Options actions on the file system.  io is what the        *)
(* operating system does with the action: "ok", "os_error" (makedirs,      *)
(* rename, rmtree or remove raises) or "meta_error" (the meta file cannot  *)
(* be opened for writing).                                                 *)
(***************************************************************************)
IoOutcomes == {"ok", "os_error", "meta_error"}

FolderName == <<70, 111, 108, 100, 101, 114>>

\* f"{base}_{i}" + ext, base + ext for i = 0
Candidate(base, i, ext) ==
    (IF i = 0 THEN base ELSE base \o <<95>> \o DecStr(i)) \o ext

NoIndex == 1000

\* the first i in range(i, 1000) whose candidate does not exist
RECURSIVE FirstFree(_, _, _, _, _)
FirstFree(f, parent, base, ext, i) ==
    IF i >= 1000 THEN NoIndex
    ELSE IF ~Exists(f, parent \o <<Candidate(base, i, ext)>>) THEN i
    ELSE FirstFree(f, parent, base, ext, i + 1)

\* create_folder_named(current_dir, display_name)
CreateFolderNamed(f, dir, text, io) ==
    LET display_name == Strip(text)
        s == SanitizeFsName(display_name)
        safe_name == IF s = <<>> THEN FolderName ELSE s
        i == FirstFree(f, dir, safe_name, <<>>, 0)
        new_path == dir \o <<Candidate(safe_name, i, <<>>)>>
    IN  IF display_name = <<>> THEN f
        ELSE IF i = NoIndex THEN f
        ELSE IF io = "os_error" THEN f
        ELSE (new_path :> Folder(IF io = "meta_error" THEN NoMeta
                                 ELSE Meta(TRUE, display_name, TRUE, 5000, "", "")))
             @@ f

\* shutil.rmtree(path) / os.remove(path)
Remove(f, path) == [p \in {q \in DOMAIN f : ~IsPrefix(path, q)} |-> f[p]]

\* delete_entry(entry)
DeleteEntry(f, entry, io) ==
    IF io = "os_error" \/ ~Exists(f, entry.path) THEN f
    ELSE Remove(f, entry.path)

\* os.rename(path, new_path), new_path not existing
Move(f, path, new_path) ==
    LET kept == {q \in DOMAIN f : ~IsPrefix(path, q)}
        moved == {new_path \o SubSeq(q, Len(path) + 1, Len(q)) :
                     q \in {r \in DOMAIN f : IsPrefix(path, r)}}
    IN  [p \in kept \cup moved |->
            IF p \in moved
            THEN f[path \o SubSeq(p, Len(new_path) + 1, Len(p))]
            ELSE f[p]]

\* meta["display_name"] = display_name (meta["name"] for an app), meta = {}
\* when the file was missing or unreadable
WithMetaNameKept(m, display_name) == m
WithMetaName(m, display_name) ==
    IF m.ok THEN [m EXCEPT !.name = display_name]
    ELSE Meta(TRUE, display_name, TRUE, NoPrio, "", "")

\* rename_entry(entry, new_display_name)
RenameEntry(f, entry, text, io) ==
    LET path == entry.path
        parent == Dirname(path)
        display_name == Strip(text)
        safe_name == SanitizeFsName(display_name)
        ext == IF entry.type = "app" THEN DotApp ELSE <<>>
        i == IF Exists(f, parent \o <<Candidate(safe_name, 0, ext)>>)
             THEN FirstFree(f, parent, safe_name, ext, 1) ELSE 0
        new_path == parent \o <<Candidate(safe_name, i, ext)>>
        moved == Move(f, path, new_path)
    IN  IF display_name = <<>> THEN f
        ELSE IF entry.type \notin {"folder", "app"} THEN f
        ELSE IF safe_name = <<>> THEN f
        ELSE IF io = "os_error" \/ ~Exists(f, path) \/ i = NoIndex THEN f
        ELSE IF io = "meta_error" THEN moved
        ELSE [moved EXCEPT ![new_path].meta = WithMetaName(@, display_name)]

(***************************************************************************)
(* main.py: the state of the main loop.                                    *)
(***************************************************************************)
STATE_SCREENSAVER == "screensaver"
STATE_MAIN_MENU == "main_menu"
STATE_LIST_VIEW == "list_view"
STATE_OPTIONS_MENU == "options_menu"
STATE_KEYBOARD == "keyboard"
STATE_CONSOLE == "console"
STATE_APP == "app"
\* an exception has left main(): the process has ended
STATE_CRASHED == "crashed"

\* time is counted in half seconds: the 1.0 of line 1262 and IDLE_TIMEOUT
\* (line 72, 999999999.0 seconds)
Second == 2
IDLE_TIMEOUT == 999999999 * Second

KB_MODE_RENAME == "rename"
KB_MODE_NEW_FOLDER == "new_folder"
NoMode == "None"

OPTIONS_ITEMS == <<"Create folder", "Rename", "Delete", "Back">>

Events == {"UP", "DOWN", "LEFT", "RIGHT", "CENTER", "KEY1", "KEY2", "KEY3"}

\* current_dir = None: no path (a path has no empty file name)
NoDir == << <<>> >>
\* keyboard_target = None
NoEntry == Entry("None", NoDir, <<>>, 0)
\* current_app = None, current_app_module = None
NoApp == "None"

\* no Options menu is open
NoOpen == [entries |-> <<>>, selected |-> 0, scroll |-> 0, fs |-> <<>>]

\* no operation has finished
NoOp == [kind |-> "None", target |-> NoEntry, text |-> <<>>, typed |-> <<>>,
         io |-> "ok", before |-> NoOpen]

\* main(), lines 957-1006: the state the loop is entered with, on file system f
MainInit(f) ==
    /\ fs = f
    /\ root_entries = LoadRootMenuEntries(f)
    /\ state = STATE_SCREENSAVER
    /\ selected_root_index = 0
    /\ current_dir = NoDir
    /\ current_dir_name = <<>>
    /\ list_entries = <<>>
    /\ selected_list_index = 0
    /\ list_scroll = 0
    /\ current_app = NoApp
    /\ current_app_module = NoApp
    /\ selected_option_index = 0
    /\ keyboard_mode = NoMode
    /\ keyboard_target = NoEntry
    /\ console_lines = <<>>
    /\ console_scroll = 0
    /\ ops = 0
    /\ ev = "None"
    /\ pre_state = STATE_SCREENSAVER
    /\ pre_ops = 0
    /\ at_open = NoOpen
    /\ typed = <<>>
    /\ last_op = NoOp
    /\ menu_dirty = TRUE
    /\ list_dirty = TRUE
    /\ options_dirty = TRUE
    /\ keyboard_dirty = TRUE
    /\ console_dirty = TRUE
    /\ calls = <<>>
    /\ continued = FALSE

\* the file names of the menu tree the shell of Spec runs on
NameA == <<65>>
NameB == <<66>>
NameF == <<102>>
NameGApp == <<103>> \o DotApp
NameMApp == <<109>> \o DotApp

\* A/ (display name "S", first) with the folder f/ (display name "R") and
\* the console app g.app (name "G"); B/ with the mini-app m.app
MenuTree ==
    (<<NameA>> :> Folder(Meta(TRUE, <<83>>, TRUE, 1, "", ""))) @@
    (<<NameA, NameF>> :> Folder(Meta(TRUE, <<82>>, TRUE, NoPrio, "", ""))) @@
    (<<NameA, NameGApp>> :> AppFile(Meta(TRUE, <<71>>, TRUE, NoPrio, "", "uptime"))) @@
    (<<NameB>> :> Folder(NoMeta)) @@
    (<<NameB, NameMApp>> :> AppFile(Meta(TRUE, None, TRUE, NoPrio, "system.cpu_ram", "")))

(***************************************************************************)
(* apps/loader.py: load_app.                                               *)
(*                                                                         *)
(* The inputs of one call are what importlib and the module give: whether  *)
(* the import raises, and dir(mod) in its (sorted) order, each attribute   *)
(* with whether its name ends in "App" and what calling it with three and  *)
(* with two arguments does.  A call returns an instance ("ok"), raises     *)
(* TypeError because the arguments do not fit the signature, raises        *)
(* TypeError from the constructor's body, or raises another Exception.     *)
(***************************************************************************)
Call3Outcomes == {"ok", "TypeError_signature", "TypeError_body", "Exception"}
Call2Outcomes == {"ok", "TypeError", "Exception"}

AttrKinds ==
    {[app |-> FALSE, c3 |-> "ok", c2 |-> "ok"]} \cup
    {[app |-> TRUE, c3 |-> x, c2 |-> y] : x \in Call3Outcomes, y \in Call2Outcomes}

SeqsUpTo(S, n) == UNION {[1..m -> S] : m \in 0..n}

\* the first attribute of dir(mod) whose name ends in "App", 0 when none
FirstApp(attrs) ==
    IF \E i \in 1..Len(attrs) : attrs[i].app
    THEN CHOOSE i \in 1..Len(attrs) :
            attrs[i].app /\ \A j \in 1..(i - 1) : ~attrs[j].app
    ELSE 0

\* load_app(module_name, hw, fonts, monitor): value is the returned object
\* ("none" is None), raised the exception that leaves the function ("" when
\* it returns), calls the constructor calls made, in order
LoadApp(import_ok, attrs) ==
    IF ~import_ok
        THEN [value |-> "none", raised |-> "", calls |-> <<>>, warned |-> TRUE]
    ELSE IF FirstApp(attrs) = 0
        THEN [value |-> "none", raised |-> "", calls |-> <<>>, warned |-> TRUE]
    ELSE
        LET app_cls == attrs[FirstApp(attrs)]
        IN  IF app_cls.c3 = "ok"
                THEN [value |-> "instance3", raised |-> "", calls |-> <<3>>,
                      warned |-> FALSE]
            ELSE IF app_cls.c3 \in {"TypeError_signature", "TypeError_body"}
                THEN IF app_cls.c2 = "ok"
                     THEN [value |-> "instance2", raised |-> "", calls |-> <<3, 2>>,
                           warned |-> FALSE]
                     ELSE [value |-> "none", raised |-> "", calls |-> <<3, 2>>,
                           warned |-> TRUE]
            ELSE [value |-> "none", raised |-> app_cls.c3, calls |-> <<3>>,
                  warned |-> FALSE]

LdIdle == [pc |-> "idle", import_ok |-> TRUE, attrs |-> <<>>,
           out |-> [value |-> "none", raised |-> "", calls |-> <<>>, warned |-> FALSE]]

(***************************************************************************)
(* main.py: the event dispatch of the main loop, one action per state.     *)
(* An iteration without an event changes none of the variables modelled.   *)
(***************************************************************************)
\* apps/<module>/app.py as importlib and dir() present it: CpuRamApp is the
\* first attribute ending in "App" and takes (hw, fonts, monitor); the
\* constructor of the class of system.broken raises ValueError
InstalledModule(module_name) ==
    IF module_name = "system.cpu_ram"
    THEN [import_ok |-> TRUE,
          attrs |-> <<[app |-> TRUE, c3 |-> "ok", c2 |-> "TypeError_signature"]>>]
    ELSE IF module_name = "system.broken"
    THEN [import_ok |-> TRUE,
          attrs |-> <<[app |-> TRUE, c3 |-> "ValueError", c2 |-> "ok"]>>]
    ELSE [import_ok |-> FALSE, attrs |-> <<>>]

\* CpuRamApp.on_event(event)
AppOnEvent(module_name, event) == IF event = "KEY3" THEN "exit" ELSE "stay"

\* run_app: text.splitlines() of what the command prints
ConsoleOutputs == {<<>>, <<"up 1 day", "load 0.1">>}

\* run_app, lines 871-883: what reading the descriptor gives: open() or
\* json.load() raises ("error"), the JSON value is not an object
\* ("not_object"), or it is an object whose "exec" is exec ("" when the key
\* is absent or its value is falsy)
Descriptors ==
    {[read |-> "error", exec |-> ""], [read |-> "not_object", exec |-> ""],
     [read |-> "object", exec |-> ""], [read |-> "object", exec |-> "uptime"]}

\* run_app, lines 887-896: what subprocess.check_output does: it returns the
\* output, raises CalledProcessError carrying the output (non-zero exit
\* status), raises TimeoutExpired, or raises another Exception (OSError)
ExecKinds == {"ok", "CalledProcessError", "TimeoutExpired", "Exception"}

\* str(e) of the TimeoutExpired of line 889-891
TimedOutText == <<67, 111, 109, 109, 97, 110, 100, 32, 39, 117, 112, 116, 105, 109, 101, 39, 32, 116, 105, 109, 101, 100, 32, 111, 117, 116, 32, 97, 102, 116, 101, 114, 32, 50, 48, 32, 115, 101, 99, 111, 110, 100, 115>>

\* "ERROR: cannot read .app: " (followed by str(e)) and "ERROR: no 'exec' in .app"
ErrCannotRead == <<69, 82, 82, 79, 82, 58, 32, 99, 97, 110, 110, 111, 116, 32, 114, 101, 97, 100, 32, 46, 97, 112, 112, 58, 32>>
ErrNoExec == <<69, 82, 82, 79, 82, 58, 32, 110, 111, 32, 39, 101, 120, 101, 99, 39, 32, 105, 110, 32, 46, 97, 112, 112>>

\* str.splitlines() on line feeds: a line ends at each "\n"; a last line
\* without "\n" counts, an empty rest does not
RECURSIVE SplitLines(_)
SplitLines(t) ==
    IF t = <<>> THEN <<>>
    ELSE IF \E i \in 1..Len(t) : t[i] = 10
    THEN LET i == CHOOSE j \in 1..Len(t) : t[j] = 10 /\ \A h \in 1..(j - 1) : t[h] /= 10
         IN  <<SubSeq(t, 1, i - 1)>> \o SplitLines(SubSeq(t, i + 1, Len(t)))
    ELSE <<t>>

\* the text lines 888-896 end with: the decoded output, the decoded output
\* of the failed command, or str(e)
ExecText(run) ==
    IF run.kind \in {"ok", "CalledProcessError"} THEN run.text
    ELSE IF run.kind = "TimeoutExpired" THEN TimedOutText
    ELSE run.text

\* run_app(entry), with desc what reading entry["path"] gives and run what
\* running the command gives: the exception that leaves run_app ("" when it
\* returns) and, when it returns, the console_lines and console_scroll it
\* assigned
RunApp(desc, run) ==
    IF desc.read = "error"
        THEN [raised |-> "", console_lines |-> <<ErrCannotRead>>, console_scroll |-> 0]
    ELSE IF desc.read = "not_object"
        THEN [raised |-> "AttributeError", console_lines |-> <<>>, console_scroll |-> 0]
    ELSE IF desc.exec = ""
        THEN [raised |-> "", console_lines |-> <<ErrNoExec>>, console_scroll |-> 0]
    ELSE [raised |-> "", console_lines |-> SplitLines(ExecText(run)), console_scroll |-> 0]

\* no call of run_app is under way
RaIdle == [pc |-> "idle", desc |-> [read |-> "object", exec |-> ""],
           run |-> [kind |-> "ok", text |-> <<>>], raised |-> ""]

(***************************************************************************)
(* apps/network/gps/app.py: GpsApp and its poll of gpsd.  A value read     *)
(* from JSON, or held by a field, is null (Python's None), a number or a   *)
(* string that is no number.                                               *)
(***************************************************************************)
JNone == [t |-> "null", v |-> 0]
JNum(n) == [t |-> "number", v |-> n]
JStr == [t |-> "string", v |-> 0]

\* float(raw) and int(raw) of a value that is not None: the number, or
\* ValueError for the string
ToNumber(raw) ==
    IF raw.t = "number" THEN [ok |-> TRUE, value |-> raw] ELSE [ok |-> FALSE, value |-> JNone]

\* the largest number of lines of an output of gpspipe
MaxLines == 2

\* the lines gpspipe prints: a blank line; a line with "class":"TPV" that
\* json.loads rejects, or gives a value that is no object for, or an object
\* for with these lat, lon and mode and no alt, speed, eph, epx or epy; a
\* line with "class":"SKY" likewise, its object with seen satellites of
\* which used are in use
GpsLines ==
    {[cls |-> "", json |-> "", lat |-> JNone, lon |-> JNone, mode |-> JNone,
      seen |-> 0, used |-> 0]}
    \cup {[cls |-> "TPV", json |-> j, lat |-> JNone, lon |-> JNone, mode |-> JNone,
           seen |-> 0, used |-> 0] : j \in {"unparsable", "not_object"}}
    \cup {[cls |-> "TPV", json |-> "object", lat |-> la, lon |-> lo, mode |-> m,
           seen |-> 0, used |-> 0] :
             la \in {JNone, JNum(55)}, lo \in {JNone, JNum(37), JStr},
             m \in {JNone, JNum(3), JStr}}
    \cup {[cls |-> "SKY", json |-> j, lat |-> JNone, lon |-> JNone, mode |-> JNone,
           seen |-> 0, used |-> 0] : j \in {"unparsable", "not_object"}}
    \cup {[cls |-> "SKY", json |-> "object", lat |-> JNone, lon |-> JNone,
           mode |-> JNone, seen |-> 2, used |-> 1]}

\* what _run_cmd returns, as its lines: no line when the command fails,
\* times out or prints nothing
GpsOutputs == UNION {[1..n -> GpsLines] : n \in 0..MaxLines}

\* __init__, lines 33-42, and on_enter, lines 189-197
GpsNew ==
    [pc |-> "new", status |-> "SEARCH", lat |-> JNone, lon |-> JNone, alt_m |-> JNone,
     speed_kmh |-> JNone, acc_m |-> JNone, sats_used |-> JNone, sats_seen |-> JNone,
     fix_dim |-> JNone, raised |-> "", pre_status |-> "SEARCH", out |-> <<>>]

\* no GpsApp has been made
GpsIdle == [GpsNew EXCEPT !.pc = "idle"]

\* lines 91-102: the index of the first TPV line and of the last SKY line,
\* 0 for None
FirstTpv(lines) ==
    LET S == {i \in 1..Len(lines) : lines[i].cls = "TPV"}
    IN  IF S = {} THEN 0 ELSE CHOOSE i \in S : \A j \in S : i <= j
LastSky(lines) ==
    LET S == {i \in 1..Len(lines) : lines[i].cls = "SKY"}
    IN  IF S = {} THEN 0 ELSE CHOOSE i \in S : \A j \in S : i >= j

\* lines 104-162: the fields after the TPV part
QueryTpv(g, lines) ==
    IF FirstTpv(lines) = 0 THEN [g EXCEPT !.status = "SEARCH"]
    ELSE
      LET tpv == lines[FirstTpv(lines)]
      IN  IF tpv.json = "unparsable" THEN g
          ELSE IF tpv.json = "not_object" THEN [g EXCEPT !.raised = "AttributeError"]
          ELSE
            LET both == tpv.lat /= JNone /\ tpv.lon /= JNone
                fine == both /\ ToNumber(tpv.lat).ok /\ ToNumber(tpv.lon).ok
                mode == IF tpv.mode /= JNone THEN ToNumber(tpv.mode).value ELSE JNone
            IN  IF fine
                THEN [g EXCEPT !.lat = ToNumber(tpv.lat).value,
                               !.lon = ToNumber(tpv.lon).value,
                               !.fix_dim = IF mode = JNum(3) THEN JNum(3) ELSE JNum(2),
                               !.status = IF mode = JNum(3) THEN "FIX_3D" ELSE "FIX_2D"]
                ELSE [g EXCEPT !.status = "SEARCH"]

\* lines 164-183: the fields after the SKY part
QuerySky(g, lines) ==
    IF LastSky(lines) = 0 THEN g
    ELSE
      LET sky == lines[LastSky(lines)]
      IN  IF sky.json = "unparsable" THEN g
          ELSE IF sky.json = "not_object" THEN [g EXCEPT !.raised = "AttributeError"]
          ELSE [g EXCEPT !.sats_used = JNum(sky.used), !.sats_seen = JNum(sky.seen)]

\* _query_gps() on the output out of gpspipe
QueryGps(g, out) ==
    LET reset == [g EXCEPT !.lat = JNone, !.lon = JNone, !.alt_m = JNone,
                           !.speed_kmh = JNone, !.acc_m = JNone, !.sats_used = JNone,
                           !.sats_seen = JNone, !.fix_dim = JNone]
        lines == SelectSeq(out, LAMBDA l : l.cls /= "")
    IN  IF out = <<>> THEN [reset EXCEPT !.status = "SEARCH"]
        ELSE LET t == QueryTpv(reset, lines)
             IN  IF t.raised /= "" THEN t ELSE QuerySky(t, lines)

\* read_buttons: the pins in the order of the dict
Pins == <<"UP", "DOWN", "LEFT", "RIGHT", "CENTER", "KEY1", "KEY2", "KEY3">>

\* read_buttons, lines 925-930: the loop over the pins from the i-th on,
\* reading[name] being what digital_read returns for the pin of name
RECURSIVE ScanPins(_, _, _, _)
ScanPins(prev_states, reading, i, found) ==
    IF i > Len(Pins) THEN found
    ELSE LET name == Pins[i]
             val == reading[name]
             prev == prev_states[name]
         IN  ScanPins(prev_states, reading, i + 1,
                      IF prev = 1 /\ val = 0 /\ found = "None" THEN name ELSE found)

\* read_buttons(prev_states) -> (event, new_states)
ReadButtonsByLevel(prev_states, reading) ==
    [event |-> ScanPins([name \in Events |-> 1], reading, 1, "None"),
     new_states |-> reading]
ReadButtons(prev_states, reading) ==
    [event |-> ScanPins(prev_states, reading, 1, "None"), new_states |-> reading]

\* the run has not ended
Running == ops < MaxOps

\* history of one iteration with event e
Step(e) == ev' = e /\ pre_state' = state /\ pre_ops' = ops

\* lines 1170-1172, 1213-1215: the selection clamped to the reloaded list
ClampKeepsSelection(selected, n) == selected
ClampSelection(selected, n) == IF selected >= n THEN Max(0, n - 1) ELSE selected

\* lines 1021-1023
InScreensaver(E) ==
    /\ state = STATE_SCREENSAVER
    /\ Running
    /\ \E e \in E : Step(e)
    /\ state' = STATE_MAIN_MENU
    /\ menu_dirty' = TRUE
    /\ calls' = <<>>
    /\ continued' = FALSE
    /\ UNCHANGED <<list_dirty, options_dirty, keyboard_dirty, console_dirty>>
    /\ UNCHANGED <<root_entries, selected_root_index, dirvars, listvars, appvars,
                   selected_option_index, sessvars, consvars, fs, ops, last_op, kb, at_open, typed>>
    /\ UNCHANGED kbhist

OnScreensaver == InScreensaver(Events) /\ UNCHANGED loopvars

\* lines 1025-1032
InRunningApp(E) ==
    /\ state = STATE_APP
    /\ Running
    /\ \E e \in E :
        /\ Step(e)
        /\ IF current_app /= NoApp /\ AppOnEvent(current_app_module, e) = "exit"
           THEN /\ state' = STATE_LIST_VIEW
                /\ list_dirty' = TRUE
                /\ current_app' = NoApp
                /\ current_app_module' = NoApp
           ELSE UNCHANGED <<state, list_dirty, appvars>>
    /\ calls' = IF current_app /= NoApp THEN <<"on_event">> ELSE <<>>
    /\ continued' = FALSE
    /\ UNCHANGED <<menu_dirty, options_dirty, keyboard_dirty, console_dirty>>
    /\ UNCHANGED <<root_entries, selected_root_index, dirvars, listvars,
                   selected_option_index, sessvars, consvars, fs, ops, last_op, kb, at_open, typed>>
    /\ UNCHANGED kbhist

OnRunningApp == InRunningApp(Events) /\ UNCHANGED loopvars

\* lines 1035-1036
MainMenuKey3 ==
    /\ state' = STATE_SCREENSAVER
    /\ UNCHANGED <<selected_root_index, dirvars, listvars>>

\* lines 1037-1057
MainMenuMoveUnchecked(e) ==
    LET rows == 2
        cols == 3
        idx == selected_root_index
        row == idx \div cols
        col == idx % cols
        row2 == IF e = "UP" /\ row > 0 THEN row - 1
                ELSE IF e = "DOWN" /\ row < rows - 1 THEN row + 1 ELSE row
        col2 == IF e = "LEFT" /\ col > 0 THEN col - 1
                ELSE IF e = "RIGHT" /\ col < cols - 1 THEN col + 1 ELSE col
        new_idx == row2 * cols + col2
    IN  /\ selected_root_index' =
              IF root_entries /= <<>> /\ new_idx /= idx THEN new_idx ELSE idx
        /\ UNCHANGED <<state, dirvars, listvars>>
MainMenuMove(e) ==
    LET rows == 2
        cols == 3
        idx == selected_root_index
        row == idx \div cols
        col == idx % cols
        row2 == IF e = "UP" /\ row > 0 THEN row - 1
                ELSE IF e = "DOWN" /\ row < rows - 1 THEN row + 1 ELSE row
        col2 == IF e = "LEFT" /\ col > 0 THEN col - 1
                ELSE IF e = "RIGHT" /\ col < cols - 1 THEN col + 1 ELSE col
        new_idx == row2 * cols + col2
    IN  /\ selected_root_index' =
              IF root_entries /= <<>> /\ new_idx < Len(root_entries) /\ new_idx /= idx
              THEN new_idx ELSE idx
        /\ UNCHANGED <<state, dirvars, listvars>>

\* lines 1059-1069
MainMenuCenter ==
    IF 0 <= selected_root_index /\ selected_root_index < Len(root_entries)
    THEN LET entry == root_entries[selected_root_index + 1]
         IN  /\ current_dir' = entry.path
             /\ current_dir_name' = entry.display_name
             /\ list_entries' = LoadListEntries(fs, entry.path)
             /\ selected_list_index' = 0
             /\ list_scroll' = 0
             /\ state' = STATE_LIST_VIEW
             /\ UNCHANGED selected_root_index
    ELSE UNCHANGED <<state, selected_root_index, dirvars, listvars>>

\* lines 1034-1069
InMainMenu(E) ==
    /\ state = STATE_MAIN_MENU
    /\ Running
    /\ \E e \in E :
        /\ Step(e)
        /\ IF e = "KEY3" THEN MainMenuKey3
           ELSE IF e \in {"UP", "DOWN", "LEFT", "RIGHT"} THEN MainMenuMove(e)
           ELSE IF e = "CENTER" THEN MainMenuCenter
           ELSE UNCHANGED <<state, selected_root_index, dirvars, listvars>>
    \* line 1057: the selection has moved; line 1068: a folder was entered
    /\ menu_dirty' = (menu_dirty \/ selected_root_index' /= selected_root_index)
    /\ list_dirty' = (list_dirty \/ state' = STATE_LIST_VIEW)
    /\ calls' = <<>>
    /\ continued' = FALSE
    /\ UNCHANGED <<options_dirty, keyboard_dirty, console_dirty>>
    /\ UNCHANGED <<root_entries, appvars, selected_option_index, sessvars, consvars,
                   fs, ops, last_op, kb, at_open, typed>>
    /\ UNCHANGED kbhist

OnMainMenu == InMainMenu(Events) /\ UNCHANGED loopvars

\* lines 1072-1074
ListViewKey3Stays ==
    UNCHANGED <<state, dirvars, listvars, appvars, selected_option_index, consvars>>
ListViewKey3 ==
    /\ state' = STATE_MAIN_MENU
    /\ UNCHANGED <<dirvars, listvars, appvars, selected_option_index, consvars>>

\* lines 1076-1089
ListViewMoveKeepsScroll(e) ==
    /\ IF list_entries /= <<>> /\ e = "UP" /\ selected_list_index > 0
       THEN selected_list_index' = selected_list_index - 1
       ELSE IF list_entries /= <<>> /\ e = "DOWN"
               /\ selected_list_index < Len(list_entries) - 1
       THEN selected_list_index' = selected_list_index + 1
       ELSE UNCHANGED selected_list_index
    /\ UNCHANGED <<state, dirvars, list_entries, list_scroll, appvars,
                   selected_option_index, consvars>>
ListViewMove(e) ==
    LET max_rows == (240 - 30) \div 30
    IN  /\ IF list_entries /= <<>> /\ e = "UP" /\ selected_list_index > 0
           THEN /\ selected_list_index' = selected_list_index - 1
                /\ list_scroll' = IF selected_list_index - 1 < list_scroll
                                  THEN selected_list_index - 1 ELSE list_scroll
           ELSE IF list_entries /= <<>> /\ e = "DOWN"
                   /\ selected_list_index < Len(list_entries) - 1
           THEN /\ selected_list_index' = selected_list_index + 1
                /\ list_scroll' = IF selected_list_index + 1 >= list_scroll + max_rows
                                  THEN selected_list_index + 1 - max_rows + 1
                                  ELSE list_scroll
           ELSE UNCHANGED <<selected_list_index, list_scroll>>
        /\ UNCHANGED <<state, dirvars, list_entries, appvars, selected_option_index,
                       consvars>>

\* lines 1103-1105: open() and json.load() of the descriptor succeed
ReadableMeta(f, path) == IsFile(f, path) /\ f[path].meta.ok

\* lines 1094-1101: the selected folder becomes the current directory
ListViewEnterFolderKeepsScroll(item) ==
    /\ current_dir' = item.path
    /\ current_dir_name' = item.display_name
    /\ list_entries' = LoadListEntries(fs, item.path)
    /\ selected_list_index' = 0
    /\ UNCHANGED list_scroll
ListViewEnterFolder(item) ==
    /\ current_dir' = item.path
    /\ current_dir_name' = item.display_name
    /\ list_entries' = LoadListEntries(fs, item.path)
    /\ selected_list_index' = 0
    /\ list_scroll' = 0

\* lines 1091-1127
ListViewCenterExecFirst ==
    IF list_entries = <<>>
    THEN UNCHANGED <<state, dirvars, listvars, appvars, selected_option_index, consvars>>
    ELSE
      LET item == list_entries[selected_list_index + 1]
      IN  IF item.type = "folder"
          THEN /\ ListViewEnterFolder(item)
               /\ UNCHANGED <<state, appvars, selected_option_index, consvars>>
          ELSE IF item.type = "app" /\ ReadableMeta(fs, item.path)
          THEN
            LET meta == fs[item.path].meta
                m == InstalledModule(meta.module)
                app == LoadApp(m.import_ok, m.attrs)
            IN  IF meta.exec /= ""
                THEN /\ console_lines' \in ConsoleOutputs
                     /\ console_scroll' = 0
                     /\ state' = STATE_CONSOLE
                     /\ UNCHANGED <<dirvars, listvars, appvars, selected_option_index>>
                ELSE IF meta.module /= "" /\ app.raised = "" /\ app.value /= "none"
                THEN /\ current_app' = app.value
                     /\ current_app_module' = meta.module
                     /\ state' = STATE_APP
                     /\ UNCHANGED <<dirvars, listvars, selected_option_index, consvars>>
                ELSE UNCHANGED <<state, dirvars, listvars, appvars,
                                 selected_option_index, consvars>>
          ELSE UNCHANGED <<state, dirvars, listvars, appvars, selected_option_index,
                           consvars>>
ListViewCenter ==
    IF list_entries = <<>>
    THEN UNCHANGED <<state, dirvars, listvars, appvars, selected_option_index, consvars>>
    ELSE
      LET item == list_entries[selected_list_index + 1]
      IN  IF item.type = "folder"
          THEN /\ ListViewEnterFolder(item)
               /\ UNCHANGED <<state, appvars, selected_option_index, consvars>>
          ELSE IF item.type = "app" /\ ReadableMeta(fs, item.path)
          THEN
            LET meta == fs[item.path].meta
                m == InstalledModule(meta.module)
                app == LoadApp(m.import_ok, m.attrs)
            IN  IF meta.module /= ""
                THEN /\ IF app.raised /= ""
                        THEN state' = STATE_CRASHED /\ UNCHANGED appvars
                        ELSE IF app.value /= "none"
                        THEN /\ current_app' = app.value
                             /\ current_app_module' = meta.module
                             /\ state' = STATE_APP
                        ELSE UNCHANGED <<state, appvars>>
                     /\ UNCHANGED <<dirvars, listvars, selected_option_index, consvars>>
                ELSE IF meta.exec /= ""
                THEN /\ console_lines' \in ConsoleOutputs
                     /\ console_scroll' = 0
                     /\ state' = STATE_CONSOLE
                     /\ UNCHANGED <<dirvars, listvars, appvars, selected_option_index>>
                ELSE UNCHANGED <<state, dirvars, listvars, appvars,
                                 selected_option_index, consvars>>
          ELSE UNCHANGED <<state, dirvars, listvars, appvars, selected_option_index,
                           consvars>>

\* lines 1129-1133
ListViewKey2 ==
    /\ state' = STATE_OPTIONS_MENU
    /\ selected_option_index' = 0
    /\ UNCHANGED <<dirvars, listvars, appvars, consvars>>

\* lines 1071-1133
InListView(E) ==
    /\ state = STATE_LIST_VIEW
    /\ Running
    /\ \E e \in E :
        /\ Step(e)
        /\ IF e = "KEY3" THEN ListViewKey3
           ELSE IF e \in {"UP", "DOWN"} THEN ListViewMove(e)
           ELSE IF e = "CENTER" THEN ListViewCenter
           ELSE IF e = "KEY2" THEN ListViewKey2
           ELSE UNCHANGED <<state, dirvars, listvars, appvars, selected_option_index,
                            consvars>>
        \* lines 1084, 1089: the selection has moved; line 1100: a subfolder
        \* was entered
        /\ list_dirty' = (\/ list_dirty
                          \/ selected_list_index' /= selected_list_index
                          \/ current_dir' /= current_dir)
        \* lines 1103-1108: the descriptor of the activated app is unreadable
        /\ continued' = (/\ e = "CENTER"
                         /\ list_entries /= <<>>
                         /\ list_entries[selected_list_index + 1].type = "app"
                         /\ ~ReadableMeta(fs, list_entries[selected_list_index + 1].path))
    \* lines 1074, 1127, 1132
    /\ menu_dirty' = (menu_dirty \/ state' = STATE_MAIN_MENU)
    /\ console_dirty' = (console_dirty \/ state' = STATE_CONSOLE)
    /\ options_dirty' = (options_dirty \/ state' = STATE_OPTIONS_MENU)
    \* lines 1116-1117; line 1124
    /\ calls' = IF state' = STATE_APP THEN <<"on_enter">>
               ELSE IF state' = STATE_CONSOLE THEN <<"run_app">>
               ELSE <<>>
    /\ UNCHANGED keyboard_dirty
    /\ at_open' = IF state' = STATE_OPTIONS_MENU
                  THEN [entries |-> list_entries, selected |-> selected_list_index,
                        scroll |-> list_scroll, fs |-> fs]
                  ELSE at_open
    /\ UNCHANGED <<root_entries, selected_root_index, sessvars, fs, ops, last_op, kb,
                   typed>>
    /\ UNCHANGED kbhist

OnListView == InListView(Events) /\ UNCHANGED loopvars

\* the finished operation recorded in last_op
Op(kind, target, text, io) ==
    [kind |-> kind, target |-> target, text |-> text, typed |-> typed, io |-> io,
     before |-> at_open]

\* lines 1169-1172, 1212-1215: the list reloaded from file system f
Reload(f) ==
    LET entries == LoadListEntries(f, current_dir)
        selected == ClampSelection(selected_list_index, Len(entries))
    IN  /\ list_entries' = entries
        /\ selected_list_index' = selected
        /\ list_scroll' = Min(list_scroll, selected)

\* lines 1136-1138
OptionsKey3 ==
    /\ state' = STATE_LIST_VIEW
    /\ UNCHANGED <<listvars, selected_option_index, sessvars, fs, ops, last_op, kb>>

\* lines 1140-1147
OptionsMove(e) ==
    LET max_idx == Len(OPTIONS_ITEMS) - 1
    IN  /\ selected_option_index' =
              IF e = "UP" /\ selected_option_index > 0 THEN selected_option_index - 1
              ELSE IF e = "DOWN" /\ selected_option_index < max_idx
                   THEN selected_option_index + 1
              ELSE selected_option_index
        /\ UNCHANGED <<state, listvars, sessvars, fs, ops, last_op, kb>>

\* lines 1153-1155
OptionsBack ==
    /\ state' = STATE_LIST_VIEW
    /\ UNCHANGED <<listvars, selected_option_index, sessvars, fs, ops, last_op, kb>>

\* lines 1157-1163
OptionsCreateFolder ==
    IF current_dir /= NoDir
    THEN /\ keyboard_mode' = KB_MODE_NEW_FOLDER
         /\ keyboard_target' = NoEntry
         /\ kb' = Start(kb, "New folder", <<>>, 64)
         /\ state' = STATE_KEYBOARD
         /\ UNCHANGED <<listvars, selected_option_index, fs, ops, last_op>>
    ELSE UNCHANGED <<state, listvars, selected_option_index, sessvars, fs, ops,
                     last_op, kb>>

\* lines 1165-1177
OptionsDelete ==
    IF list_entries /= <<>>
    THEN \E io \in {"ok", "os_error"} :
            LET item == list_entries[selected_list_index + 1]
                f == DeleteEntry(fs, item, io)
            IN  /\ fs' = f
                /\ Reload(f)
                /\ state' = STATE_LIST_VIEW
                /\ ops' = ops + 1
                /\ last_op' = Op("delete", item, <<>>, io)
                /\ UNCHANGED <<selected_option_index, sessvars, kb>>
    ELSE /\ state' = STATE_LIST_VIEW
         /\ UNCHANGED <<listvars, selected_option_index, sessvars, fs, ops, last_op, kb>>

\* lines 1179-1190
OptionsRenameOpensAlways ==
    LET target == IF list_entries /= <<>> THEN list_entries[selected_list_index + 1]
                  ELSE NoEntry
    IN  /\ keyboard_mode' = KB_MODE_RENAME
        /\ keyboard_target' = target
        /\ kb' = Start(kb, "Rename",
                       IF list_entries /= <<>> THEN target.display_name ELSE <<>>, 64)
        /\ state' = STATE_KEYBOARD
        /\ UNCHANGED <<listvars, selected_option_index, fs, ops, last_op>>
OptionsRename ==
    IF list_entries /= <<>>
    THEN LET target == list_entries[selected_list_index + 1]
         IN  /\ keyboard_mode' = KB_MODE_RENAME
             /\ keyboard_target' = target
             /\ kb' = Start(kb, "Rename", target.display_name, 64)
             /\ state' = STATE_KEYBOARD
             /\ UNCHANGED <<listvars, selected_option_index, fs, ops, last_op>>
    ELSE /\ state' = STATE_LIST_VIEW
         /\ UNCHANGED <<listvars, selected_option_index, sessvars, fs, ops, last_op, kb>>

\* lines 1135-1190; choices are the items the user activates
InOptionsMenu(E, choices) ==
    /\ state = STATE_OPTIONS_MENU
    /\ Running
    /\ \E e \in E :
        /\ Step(e)
        /\ IF e = "KEY3" THEN OptionsKey3
           ELSE IF e \in {"UP", "DOWN"} THEN OptionsMove(e)
           ELSE IF e = "CENTER"
           THEN LET choice == OPTIONS_ITEMS[selected_option_index + 1]
                IN  /\ choice \in choices
                    /\ IF choice = "Back" THEN OptionsBack
                       ELSE IF choice = "Create folder" THEN OptionsCreateFolder
                       ELSE IF choice = "Delete" THEN OptionsDelete
                       ELSE OptionsRename
           ELSE UNCHANGED <<state, listvars, selected_option_index, sessvars, fs, ops,
                            last_op, kb>>
    /\ at_open' = IF state' = STATE_LIST_VIEW THEN NoOpen ELSE at_open
    \* lines 1138, 1155, 1174, 1177, 1190; 1144, 1147; 1163, 1186
    /\ list_dirty' = (list_dirty \/ state' = STATE_LIST_VIEW)
    /\ options_dirty' = (options_dirty \/ selected_option_index' /= selected_option_index)
    /\ keyboard_dirty' = (keyboard_dirty \/ state' = STATE_KEYBOARD)
    /\ calls' = <<>>
    /\ continued' = FALSE
    /\ UNCHANGED <<menu_dirty, console_dirty>>
    /\ UNCHANGED <<root_entries, selected_root_index, dirvars, appvars, consvars,
                   typed>>
    /\ UNCHANGED kbhist

OnOptionsMenu(choices) == InOptionsMenu(Events, choices) /\ UNCHANGED loopvars

\* lines 1193-1197
KeyboardKey3KeepsSession ==
    /\ state' = STATE_LIST_VIEW
    /\ ops' = ops + 1
    /\ last_op' = Op("cancel", keyboard_target, kb.text, "ok")
    /\ UNCHANGED <<sessvars, listvars, fs, kb>>
KeyboardKey3 ==
    /\ keyboard_mode' = NoMode
    /\ keyboard_target' = NoEntry
    /\ state' = STATE_LIST_VIEW
    /\ ops' = ops + 1
    /\ last_op' = Op("cancel", keyboard_target, kb.text, "ok")
    /\ UNCHANGED <<listvars, fs, kb>>

\* lines 1204-1220: the session confirmed with KEY2, text = keyboard.text
KeyboardConfirm(text) ==
    \E io \in IoOutcomes :
        LET f == IF keyboard_mode = KB_MODE_RENAME /\ keyboard_target /= NoEntry
                     THEN RenameEntry(fs, keyboard_target, text, io)
                 ELSE IF keyboard_mode = KB_MODE_NEW_FOLDER /\ current_dir /= NoDir
                     THEN CreateFolderNamed(fs, current_dir, text, io)
                 ELSE fs
        IN  /\ fs' = f
            /\ IF current_dir /= NoDir
               THEN Reload(f) ELSE UNCHANGED listvars
            /\ keyboard_mode' = NoMode
            /\ keyboard_target' = NoEntry
            /\ state' = STATE_LIST_VIEW
            /\ ops' = ops + 1
            /\ last_op' = Op(keyboard_mode, keyboard_target, text, io)

\* lines 1226-1241: handle_event returned ("done", text)
KeyboardDoneKeepsList(text) ==
    \E io \in IoOutcomes :
        LET f == IF keyboard_mode = KB_MODE_RENAME /\ keyboard_target /= NoEntry
                     THEN RenameEntry(fs, keyboard_target, text, io)
                 ELSE IF keyboard_mode = KB_MODE_NEW_FOLDER /\ current_dir /= NoDir
                     THEN CreateFolderNamed(fs, current_dir, text, io)
                 ELSE fs
        IN  /\ fs' = f
            /\ UNCHANGED listvars
            /\ keyboard_mode' = NoMode
            /\ keyboard_target' = NoEntry
            /\ state' = STATE_LIST_VIEW
            /\ ops' = ops + 1
            /\ last_op' = Op(keyboard_mode, keyboard_target, text, io)
KeyboardDone(text) ==
    \E io \in IoOutcomes :
        LET f == IF keyboard_mode = KB_MODE_RENAME /\ keyboard_target /= NoEntry
                     THEN RenameEntry(fs, keyboard_target, text, io)
                 ELSE IF keyboard_mode = KB_MODE_NEW_FOLDER /\ current_dir /= NoDir
                     THEN CreateFolderNamed(fs, current_dir, text, io)
                 ELSE fs
        IN  /\ fs' = f
            /\ IF current_dir /= NoDir
               THEN Reload(f) ELSE UNCHANGED listvars
            /\ keyboard_mode' = NoMode
            /\ keyboard_target' = NoEntry
            /\ state' = STATE_LIST_VIEW
            /\ ops' = ops + 1
            /\ last_op' = Op(keyboard_mode, keyboard_target, text, io)

\* the on-screen keys the user of the shell activates: "q", the Cyrillic
\* U+0439, space, backspace and return
PressedKeys == {<<113>>, <<1081>>, LblSpace, LblBksp, LblReturn}

\* whether the user of the shell presses e in a keyboard session: the
\* cursor is moved down the first column and along the system row, and a
\* key of PressedKeys is activated, one that appends while the text is
\* shorter than MaxLen
UserPresses(k, e) ==
    /\ e = "CENTER" =>
        /\ GetCurrentKeyLabel(k) \in PressedKeys
        /\ GetCurrentKeyLabel(k) \in {<<113>>, <<1081>>, LblSpace} =>
               Len(k.text) < MaxLen
    /\ e \in {"UP", "DOWN"} => k.cursor_col = 0
    /\ e \in {"LEFT", "RIGHT"} => k.cursor_row = Len(Rows(k)) - 1

\* lines 1192-1241
InKeyboard(E) ==
    /\ state = STATE_KEYBOARD
    /\ Running
    /\ \E e \in E :
        /\ UserPresses(kb, e)
        /\ Step(e)
        /\ IF e = "KEY3" THEN KeyboardKey3
           ELSE IF e = "KEY1"
           THEN /\ kb' = CycleLanguage(kb)
                /\ UNCHANGED <<state, listvars, sessvars, fs, ops, last_op>>
           ELSE IF e = "KEY2"
           THEN KeyboardConfirm(kb.text) /\ UNCHANGED kb
           ELSE LET r == HandleEvent(kb, e)
                IN  /\ kb' = r.kb
                    /\ IF r.ret[1] = "done" THEN KeyboardDone(r.ret[2])
                       ELSE UNCHANGED <<state, listvars, sessvars, fs, ops, last_op>>
        \* line 1201; line 1225: handle_event returned "redraw"
        /\ keyboard_dirty' = (\/ keyboard_dirty
                              \/ e = "KEY1"
                              \/ /\ e \notin {"KEY3", "KEY1", "KEY2"}
                                 /\ HandleEvent(kb, e).ret[1] = "redraw")
    \* lines 1197, 1220, 1241
    /\ list_dirty' = (list_dirty \/ state' = STATE_LIST_VIEW)
    /\ calls' = <<>>
    /\ continued' = FALSE
    /\ UNCHANGED <<menu_dirty, options_dirty, console_dirty>>
    /\ at_open' = IF state' = STATE_LIST_VIEW THEN NoOpen ELSE at_open
    /\ typed' = IF state' = STATE_LIST_VIEW THEN <<>>
                ELSE IF kb'.text = kb.text THEN typed
                ELSE IF typed /= None /\ Len(kb'.text) = Len(kb.text) + 1
                     THEN typed \o <<kb'.text[Len(kb'.text)]>>
                ELSE None
    /\ UNCHANGED <<root_entries, selected_root_index, dirvars, appvars,
                   selected_option_index, consvars>>
    /\ UNCHANGED kbhist

OnKeyboard == InKeyboard(Events) /\ UNCHANGED loopvars

\* lines 1244-1246
ConsoleKey3 == state' = STATE_LIST_VIEW /\ UNCHANGED console_scroll

\* lines 1243-1254
InConsole(E) ==
    /\ state = STATE_CONSOLE
    /\ Running
    /\ \E e \in E :
        /\ Step(e)
        /\ IF e = "KEY3" THEN ConsoleKey3
           ELSE IF e = "UP" /\ console_scroll > 0
           THEN console_scroll' = console_scroll - 1 /\ UNCHANGED state
           ELSE IF e = "DOWN" /\ console_scroll < Max(0, Len(console_lines) - 1)
           THEN console_scroll' = console_scroll + 1 /\ UNCHANGED state
           ELSE UNCHANGED <<state, console_scroll>>
    \* line 1246; lines 1250, 1254
    /\ list_dirty' = (list_dirty \/ state' = STATE_LIST_VIEW)
    /\ console_dirty' = (console_dirty \/ console_scroll' /= console_scroll)
    /\ calls' = <<>>
    /\ continued' = FALSE
    /\ UNCHANGED <<menu_dirty, options_dirty, keyboard_dirty>>
    /\ UNCHANGED <<root_entries, selected_root_index, dirvars, listvars, appvars,
                   selected_option_index, sessvars, console_lines, fs, ops, last_op, kb, at_open, typed>>
    /\ UNCHANGED kbhist

OnConsole == InConsole(Events) /\ UNCHANGED loopvars

(***************************************************************************)
(* Spec: the shell on MenuTree.                                            *)
(***************************************************************************)
NoRun == [n |-> 0, origin |-> KbNew]
\* the last keyboard operation was not start
NoArgs == <<>>

\* lines 1266-1294: what the draw routine of state st is given to draw
Visible(st) ==
    IF st = STATE_MAIN_MENU THEN <<root_entries, selected_root_index>>
    ELSE IF st = STATE_LIST_VIEW
        THEN <<list_entries, selected_list_index, list_scroll, current_dir_name>>
    ELSE IF st = STATE_OPTIONS_MENU THEN <<selected_option_index>>
    ELSE IF st = STATE_KEYBOARD THEN <<kb>>
    ELSE IF st = STATE_CONSOLE THEN <<console_lines, console_scroll>>
    ELSE <<>>

\* the screen after the draw routine of state st has run
Screen(st) == [state |-> st, content |-> Visible(st)]

\* nothing has been drawn
NoScreen == [state |-> "None", content |-> <<>>]

\* the pins read as they are with no control pressed
AllReleased == [name \in Events |-> 1]

\* main(), lines 984-1000 and the first iteration not yet begun:
\* prev_button_states seeded with the reading seed, last_input_time = now,
\* last_clock_draw = 0.0 (long ago)
LoopInit(seed) ==
    /\ pc = "input"
    /\ prev_button_states = seed
    /\ polled = seed
    /\ since_input = 0
    /\ since_clock = Second
    /\ drawn = <<>>
    /\ shown = NoScreen

\* the keyboard object as constructed, lines 980-982
KbdIdle ==
    /\ kb = KbNew
    /\ kb_pre = KbNew
    /\ kb_op = "init"
    /\ kb_ret = <<"none", None>>
    /\ tg = NoRun
    /\ kb_args = NoArgs

Init == MainInit(MenuTree) /\ LoopInit(AllReleased) /\ KbdIdle /\ ld = LdIdle /\ ra = RaIdle /\ gps = GpsIdle

Next ==
    \/ OnScreensaver
    \/ OnRunningApp
    \/ OnMainMenu
    \/ OnListView
    \/ OnOptionsMenu({"Create folder", "Rename", "Delete", "Back"})
    \/ OnKeyboard
    \/ OnConsole

Spec == Init /\ [][Next]_vars

(***************************************************************************)
(* SpecList: the shell on a directory longer than the seven rows of the    *)
(* list view, with a user who deletes entries and opens no keyboard.       *)
(***************************************************************************)
NameC == <<67>>

\* C/ with the folders a/ .. e/ (no meta), the mini-app f.app and the
\* console apps g.app .. i.app
ListTree ==
    [p \in {<<NameC>>} \cup {<<NameC, <<c>>>> : c \in 97..101}
          \cup {<<NameC, <<c>> \o DotApp>> : c \in 102..105} |->
        IF Len(p) = 1 \/ Len(p[2]) = 1 THEN Folder(NoMeta)
        ELSE IF p[2][1] = 102
             THEN AppFile(Meta(TRUE, None, TRUE, NoPrio, "system.cpu_ram", ""))
        ELSE AppFile(Meta(TRUE, None, TRUE, NoPrio, "", "uptime"))]

InitList == MainInit(ListTree) /\ LoopInit(AllReleased) /\ KbdIdle /\ ld = LdIdle /\ ra = RaIdle /\ gps = GpsIdle

NextList ==
    \/ OnScreensaver
    \/ OnRunningApp
    \/ OnMainMenu
    \/ OnListView
    \/ OnOptionsMenu({"Delete", "Back"})
    \/ OnConsole

SpecList == InitList /\ [][NextList]_vars

(***************************************************************************)
(* SpecApps: the shell on a directory of app descriptors of every kind,    *)
(* with a user who leaves the Options menu by Back.                        *)
(***************************************************************************)
NameD == <<68>>

\* D/ with a.app (module), b.app (exec), c.app (module and exec), d.app (a
\* module that cannot be imported, and exec), e.app (neither), f.app (a
\* descriptor that does not parse), g.app (exec), i.app (a module whose
\* constructor raises) and, listed last, the folder s/ (display name "Sub")
\* with h.app (exec)
AppsTree ==
    (<<NameD>> :> Folder(NoMeta)) @@
    (<<NameD, <<97>> \o DotApp>> :>
        AppFile(Meta(TRUE, None, TRUE, NoPrio, "system.cpu_ram", ""))) @@
    (<<NameD, <<98>> \o DotApp>> :> AppFile(Meta(TRUE, None, TRUE, NoPrio, "", "uptime"))) @@
    (<<NameD, <<99>> \o DotApp>> :>
        AppFile(Meta(TRUE, None, TRUE, NoPrio, "system.cpu_ram", "uptime"))) @@
    (<<NameD, <<100>> \o DotApp>> :>
        AppFile(Meta(TRUE, None, TRUE, NoPrio, "system.absent", "uptime"))) @@
    (<<NameD, <<101>> \o DotApp>> :> AppFile(Meta(TRUE, None, TRUE, NoPrio, "", ""))) @@
    (<<NameD, <<102>> \o DotApp>> :> AppFile(NoMeta)) @@
    (<<NameD, <<103>> \o DotApp>> :> AppFile(Meta(TRUE, None, TRUE, NoPrio, "", "uptime"))) @@
    (<<NameD, <<105>> \o DotApp>> :>
        AppFile(Meta(TRUE, None, TRUE, NoPrio, "system.broken", ""))) @@
    (<<NameD, <<115>>>> :> Folder(Meta(TRUE, <<83, 117, 98>>, TRUE, 9500, "", ""))) @@
    (<<NameD, <<115>>, <<104>> \o DotApp>> :>
        AppFile(Meta(TRUE, None, TRUE, NoPrio, "", "uptime")))

InitApps == MainInit(AppsTree) /\ LoopInit(AllReleased) /\ KbdIdle /\ ld = LdIdle /\ ra = RaIdle /\ gps = GpsIdle

NextApps ==
    \/ OnScreensaver
    \/ OnRunningApp
    \/ OnMainMenu
    \/ OnListView
    \/ OnOptionsMenu({"Back"})
    \/ OnConsole

SpecApps == InitApps /\ [][NextApps]_vars

(***************************************************************************)
(* SpecEdit: the shell on the directory of SpecList, with a user who       *)
(* creates, renames and deletes entries and who, in a keyboard session,    *)
(* activates the key under the cursor and confirms or cancels.             *)
(***************************************************************************)
EditControls == {"CENTER", "KEY2", "KEY3"}

OnKeyboardBrief == InKeyboard(EditControls) /\ UNCHANGED loopvars

NextEdit ==
    \/ OnScreensaver
    \/ OnRunningApp
    \/ OnMainMenu
    \/ OnListView
    \/ OnOptionsMenu({"Create folder", "Rename", "Delete", "Back"})
    \/ OnKeyboardBrief
    \/ OnConsole

SpecEdit == InitList /\ [][NextEdit]_vars

(***************************************************************************)
(* SpecKbd: the keyboard engine driven through its public API.             *)
(***************************************************************************)
\* the character keys the user of SpecKbd activates: "q" and the shifted
\* Cyrillic key U+0419
TypedKeys == {<<113>>, <<1049>>}

\* the texts SpecKbd starts a session of bound m with: none, the empty text,
\* a text of exactly m characters and one of m + 1 characters
InitialTexts(m) == {None, <<>>, Rep(113, m), Rep(113, m + 1)}

Prompts == {"Rename"}

\* whether the user of a bounded run activates the key under the cursor:
\* every key that appends nothing there, and the space key and the
\* character keys of keys while the text is shorter than cap
UserActivates(k, keys, cap) ==
    LET label == GetCurrentKeyLabel(k)
        appends == (label = LblSpace \/ (Len(label) = 1 /\ label \notin {None, LblBksp}))
                   /\ Len(k.text) < k.max_len
    IN  appends => (label \in keys \cup {LblSpace} /\ Len(k.text) < cap)

\* the run of consecutive activations of the mode toggle key
ToggleRun(k, event) ==
    IF event = "CENTER" /\ GetCurrentKeyLabel(k) \in {Lbl123, LblABC}
    THEN IF tg.n = 0 THEN [n |-> 1, origin |-> k]
         ELSE [n |-> Min(tg.n + 1, 3), origin |-> tg.origin]
    ELSE NoRun

InitKbd == KbdIdle /\ ld = LdIdle /\ ra = RaIdle /\ gps = GpsIdle /\ MainInit(MenuTree) /\ LoopInit(AllReleased)

\* main.py calls start() before the keyboard receives its first event
SessionStarted == kb_op /= "init"

KbdStart ==
    \E p \in Prompts, m \in 0..MaxLen : \E t \in InitialTexts(m) :
        /\ kb' = Start(kb, p, t, m)
        /\ kb_pre' = kb
        /\ kb_op' = "start"
        /\ kb_ret' = <<"none", None>>
        /\ tg' = NoRun
        /\ kb_args' = [prompt |-> p, initial_text |-> t, max_len |-> m]
        /\ UNCHANGED <<ld, ra, gps, mainvars>>

KbdCycleLanguage ==
    /\ SessionStarted
    /\ kb' = CycleLanguage(kb)
    /\ kb_pre' = kb
    /\ kb_op' = "cycle"
    /\ kb_ret' = <<"none", None>>
    /\ tg' = NoRun
    /\ kb_args' = NoArgs
    /\ UNCHANGED <<ld, ra, gps, mainvars>>

KbdHandleEvent ==
    \E e \in Events :
        /\ SessionStarted
        /\ e = "CENTER" => UserActivates(kb, TypedKeys, MaxLen)
        /\ LET r == HandleEvent(kb, e)
           IN  /\ kb' = r.kb
               /\ kb_ret' = r.ret
        /\ kb_pre' = kb
        /\ kb_op' = e
        /\ tg' = ToggleRun(kb, e)
        /\ kb_args' = NoArgs
        /\ UNCHANGED <<ld, ra, gps, mainvars>>

NextKbd == KbdStart \/ KbdCycleLanguage \/ KbdHandleEvent

SpecKbd == InitKbd /\ [][NextKbd]_vars

(***************************************************************************)
(* SpecInput: read_buttons polled with every reading of the eight pins     *)
(* that has at most MaxPressed controls pressed (0 is pressed).            *)
(***************************************************************************)
Readings ==
    {r \in [Events -> {0, 1}] : Cardinality({name \in Events : r[name] = 0}) <= MaxPressed}

InitInput ==
    /\ \E seed \in Readings : LoopInit(seed)
    /\ MainInit(MenuTree)
    /\ KbdIdle
    /\ ld = LdIdle /\ ra = RaIdle /\ gps = GpsIdle

\* line 1016: event, prev_button_states = read_buttons(prev_button_states)
Poll ==
    \E reading \in Readings :
        LET r == ReadButtons(prev_button_states, reading)
        IN  /\ ev' = r.event
            /\ prev_button_states' = r.new_states
            /\ polled' = prev_button_states
            /\ UNCHANGED <<kbvars, ld, ra, gps, corevars, pc, since_input, since_clock, drawn, shown>>

NextInput == Poll

SpecInput == InitInput /\ [][NextInput]_vars

(***************************************************************************)
(* SpecTick: the whole iteration of the main loop on MenuTree, in two      *)
(* steps that alternate: TickInput (lines 1010-1254: the clock, the poll   *)
(* and the dispatch) and TickDraw (lines 1256-1296: the idle check and the *)
(* draw step).                                                             *)
(***************************************************************************)
\* the menu tree of SpecTick: B/ with the mini-app m.app and the console
\* app g.app
TickTree ==
    (<<NameB>> :> Folder(NoMeta)) @@
    (<<NameB, NameMApp>> :> AppFile(Meta(TRUE, None, TRUE, NoPrio, "system.cpu_ram", ""))) @@
    (<<NameB, NameGApp>> :> AppFile(Meta(TRUE, <<71>>, TRUE, NoPrio, "", "uptime")))

\* the controls the user of SpecTick presses
TickControls == {"DOWN", "CENTER", "KEY2", "KEY3"}

\* the readings of SpecTick: at most one control is pressed at a time
TickReadings ==
    {r \in [Events -> {0, 1}] :
        \E name \in TickControls : \A other \in Events \ {name} : r[other] = 1}

\* now - last_frame_time, in half seconds: an iteration takes half a second,
\* or the process sleeps for IDLE_TIMEOUT
Durations == {1, IDLE_TIMEOUT}

\* the events the user of SpecTick gives in state st: a keyboard session is
\* confirmed or left at once
TickUser(st, e) == st = STATE_KEYBOARD => e \in {"KEY2", "KEY3"}

\* the Options items the user of SpecTick activates
TickChoices == {"Create folder", "Back"}

\* lines 1021-1254: the handler of the active state
Dispatch(E) ==
    \/ InScreensaver(E)
    \/ InRunningApp(E)
    \/ InMainMenu(E)
    \/ InListView(E)
    \/ InOptionsMenu(E, TickChoices)
    \/ InKeyboard(E)
    \/ InConsole(E)

InitTick ==
    /\ \E seed \in TickReadings : LoopInit(seed)
    /\ MainInit(TickTree)
    /\ KbdIdle
    /\ ld = LdIdle /\ ra = RaIdle /\ gps = GpsIdle

\* lines 1010-1254; since_input and since_clock stop counting where the
\* comparisons of lines 1257 and 1262 no longer tell the values apart
TickInput ==
    /\ pc = "input"
    /\ \E dt \in Durations, reading \in TickReadings :
        LET r == ReadButtons(prev_button_states, reading)
            quiet == IF dt > IDLE_TIMEOUT - since_input THEN IDLE_TIMEOUT + 1
                     ELSE since_input + dt
        IN  /\ quiet <= MaxQuiet \/ quiet >= IDLE_TIMEOUT
            /\ prev_button_states' = r.new_states
            /\ since_clock' = Min(since_clock + dt, Second)
            /\ drawn' = <<>>
            /\ UNCHANGED <<polled, shown>>
            /\ IF r.event /= "None"
               THEN /\ since_input' = 0
                    /\ TickUser(state, r.event)
                    /\ Dispatch({r.event})
                    /\ pc' = IF continued' THEN "input" ELSE "draw"
               ELSE /\ since_input' = quiet
                    /\ ev' = "None"
                    /\ pre_state' = state
                    /\ pre_ops' = ops
                    /\ calls' = <<>>
                    /\ continued' = FALSE
                    /\ pc' = "draw"
                    /\ UNCHANGED <<state, root_entries, selected_root_index, dirvars,
                                   listvars, appvars, selected_option_index, sessvars,
                                   consvars, fs, ops, at_open, typed, last_op, dirtyvars,
                                   kbvars, ld, ra, gps>>

\* line 1257
IdleFiresNever(st, idle_for) == FALSE
IdleFires(st, idle_for) == st /= STATE_SCREENSAVER /\ idle_for > IDLE_TIMEOUT

\* lines 1286-1289: the calls on the hosted app
DrawRunningAppOnly(app) == IF app /= NoApp THEN <<"draw">> ELSE <<>>
DrawRunningApp(app) == IF app /= NoApp THEN <<"update", "draw">> ELSE <<>>

\* lines 1266-1284, 1291-1294: draw when flag is set
DrawAlways(flag, routine) == <<routine>>
DrawIfDirty(flag, routine) == IF flag THEN <<routine>> ELSE <<>>

\* lines 1256-1296
TickDraw ==
    /\ pc = "draw"
    /\ state /= STATE_CRASHED
    /\ LET st == IF IdleFires(state, since_input) THEN STATE_SCREENSAVER ELSE state
           tick == st = STATE_SCREENSAVER /\ since_clock >= Second
       IN  /\ state' = st
           /\ drawn' =
                 IF st = STATE_SCREENSAVER
                     THEN (IF tick THEN <<"draw_screensaver">> ELSE <<>>)
                 ELSE IF st = STATE_MAIN_MENU THEN DrawIfDirty(menu_dirty, "draw_main_menu")
                 ELSE IF st = STATE_LIST_VIEW THEN DrawIfDirty(list_dirty, "draw_list_view")
                 ELSE IF st = STATE_OPTIONS_MENU
                     THEN DrawIfDirty(options_dirty, "draw_options_menu")
                 ELSE IF st = STATE_KEYBOARD THEN DrawIfDirty(keyboard_dirty, "keyboard.draw")
                 ELSE IF st = STATE_APP THEN DrawRunningApp(current_app)
                 ELSE DrawIfDirty(console_dirty, "draw_console")
           /\ since_clock' = IF tick THEN 0 ELSE since_clock
           /\ shown' = IF drawn' /= <<>> THEN Screen(st) ELSE shown
           /\ menu_dirty' = (menu_dirty /\ st /= STATE_MAIN_MENU)
           /\ list_dirty' = (list_dirty /\ st /= STATE_LIST_VIEW)
           /\ options_dirty' = (options_dirty /\ st /= STATE_OPTIONS_MENU)
           /\ keyboard_dirty' = (keyboard_dirty /\ st /= STATE_KEYBOARD)
           /\ console_dirty' = (console_dirty /\ st /= STATE_CONSOLE)
    /\ pc' = "input"
    /\ UNCHANGED <<root_entries, selected_root_index, dirvars, listvars, appvars,
                   selected_option_index, sessvars, consvars, fs, ops, ev, pre_state,
                   pre_ops, at_open, typed, last_op, calls, continued,
                   prev_button_states, polled, since_input, kbvars, ld, ra, gps>>

NextTick == TickInput \/ TickDraw

SpecTick == InitTick /\ [][NextTick]_vars

(***************************************************************************)
(* SpecRunApp: one call of run_app on every descriptor and every outcome   *)
(* of the command, from a console that shows an earlier output, scrolled   *)
(* or not.                                                                 *)
(***************************************************************************)
\* the texts a command prints: up to MaxText characters "a" and line feeds
ExecTexts == SeqsUpTo({97, 10}, MaxText)

InitRunApp ==
    /\ \E desc \in Descriptors, kind \in ExecKinds, text \in ExecTexts :
          ra = [pc |-> "call", desc |-> desc, run |-> [kind |-> kind, text |-> text],
                raised |-> ""]
    /\ ld = LdIdle
    /\ gps = GpsIdle
    /\ KbdIdle
    /\ LoopInit(AllReleased)
    /\ fs = MenuTree
    /\ root_entries = LoadRootMenuEntries(MenuTree)
    /\ state = STATE_LIST_VIEW
    /\ selected_root_index = 0
    /\ current_dir = <<NameA>>
    /\ current_dir_name = <<83>>
    /\ list_entries = LoadListEntries(MenuTree, <<NameA>>)
    /\ selected_list_index = 1
    /\ list_scroll = 0
    /\ current_app = NoApp
    /\ current_app_module = NoApp
    /\ selected_option_index = 0
    /\ keyboard_mode = NoMode
    /\ keyboard_target = NoEntry
    /\ console_lines = <<<<111>>, <<108>>, <<100>>>>
    /\ console_scroll \in {0, 2}
    /\ ops = 0
    /\ ev = "CENTER"
    /\ pre_state = STATE_LIST_VIEW
    /\ pre_ops = 0
    /\ at_open = NoOpen
    /\ typed = <<>>
    /\ last_op = NoOp
    /\ menu_dirty = FALSE
    /\ list_dirty = FALSE
    /\ options_dirty = TRUE
    /\ keyboard_dirty = TRUE
    /\ console_dirty = TRUE
    /\ calls = <<>>
    /\ continued = FALSE

RunAppCall ==
    /\ ra.pc = "call"
    /\ LET r == RunApp(ra.desc, ra.run)
       IN  /\ ra' = [ra EXCEPT !.pc = "done", !.raised = r.raised]
           /\ IF r.raised = ""
              THEN console_lines' = r.console_lines /\ console_scroll' = r.console_scroll
              ELSE UNCHANGED consvars
    /\ UNCHANGED <<kbvars, ld, gps, state, root_entries, selected_root_index, dirvars, listvars,
                   appvars, selected_option_index, sessvars, fs, ops, ev, pre_state,
                   pre_ops, at_open, typed, last_op, dirtyvars, calls, continued, loopvars>>

NextRunApp == RunAppCall

SpecRunApp == InitRunApp /\ [][NextRunApp]_vars

(***************************************************************************)
(* SpecShow: the iterations of the main loop on MenuTree with every event  *)
(* and every Options item, the poll taken as giving any event or none, and *)
(* no time passing.                                                        *)
(***************************************************************************)
ShowDispatch(E) ==
    \/ InScreensaver(E)
    \/ InRunningApp(E)
    \/ InMainMenu(E)
    \/ InListView(E)
    \/ InOptionsMenu(E, {"Create folder", "Rename", "Delete", "Back"})
    \/ InKeyboard(E)
    \/ InConsole(E)

\* lines 1010-1254 with the event read_buttons returned, if any
ShowInput ==
    /\ pc = "input"
    /\ drawn' = <<>>
    /\ UNCHANGED <<prev_button_states, polled, since_input, since_clock, shown>>
    /\ \/ /\ ShowDispatch(Events)
          /\ pc' = IF continued' THEN "input" ELSE "draw"
       \/ /\ ev' = "None"
          /\ pre_state' = state
          /\ pre_ops' = ops
          /\ calls' = <<>>
          /\ continued' = FALSE
          /\ pc' = "draw"
          /\ UNCHANGED <<state, root_entries, selected_root_index, dirvars,
                         listvars, appvars, selected_option_index, sessvars,
                         consvars, fs, ops, at_open, typed, last_op, dirtyvars,
                         kbvars, ld, ra, gps>>

NextShow == ShowInput \/ TickDraw

SpecShow == Init /\ [][NextShow]_vars

(***************************************************************************)
(* SpecConsole: the Console screen over outputs long enough to wrap and to *)
(* fill the window, from the iteration in which run_app returned; the user *)
(* scrolls.  SpecSweep: the same with a user who only presses DOWN, every  *)
(* iteration taken.                                                        *)
(***************************************************************************)
\* ui_keyboard.py line 7: the height of the display, hw.H
SCREEN_HEIGHT == 240

\* console.py lines 31, 39, 42: top_bar_h, max_chars, row_h
ConsoleTopBarH == 20
ConsoleMaxChars == 24
ConsoleRowH == 14

\* console.py line 46: "(no output)"
NoOutputText == <<40, 110, 111, 32, 111, 117, 116, 112, 117, 116, 41>>

\* console.py lines 10-13: one line cut into pieces of max_chars
RECURSIVE WrapLine(_, _)
WrapLine(line, max_chars) ==
    IF Len(line) > max_chars
    THEN <<SubSeq(line, 1, max_chars)>>
             \o WrapLine(SubSeq(line, max_chars + 1, Len(line)), max_chars)
    ELSE <<line>>

\* _wrap_lines(lines, max_chars)
RECURSIVE WrapLines(_, _)
WrapLines(lines, max_chars) ==
    IF lines = <<>> THEN <<>>
    ELSE LET line == RStrip(Head(lines))
         IN  (IF line = <<>> THEN <<<<>>>> ELSE WrapLine(line, max_chars))
                 \o WrapLines(Tail(lines), max_chars)

\* draw_console(hw, font_label, console_lines, console_scroll): the wrapped
\* lines, the offset after normalisation and the end of the slice drawn
DrawConsole(lines, scroll) ==
    LET w == WrapLines(lines, ConsoleMaxChars)
        wrapped == IF w = <<>> THEN <<NoOutputText>> ELSE w
        max_rows == (SCREEN_HEIGHT - ConsoleTopBarH) \div ConsoleRowH
        low == IF scroll < 0 THEN 0 ELSE scroll
        start == IF low > Max(0, Len(wrapped) - max_rows)
                 THEN Max(0, Len(wrapped) - max_rows) ELSE low
    IN  [wrapped |-> wrapped, max_rows |-> max_rows, start |-> start,
         end |-> Min(start + max_rows, Len(wrapped))]

\* outputs of a command: nothing, three short lines, seventeen short lines,
\* two lines of eight rows each, one line of sixteen rows
\* a line of n full rows of the console and extra characters more
RECURSIVE FullRows(_, _)
FullRows(n, extra) ==
    IF n = 0 THEN Rep(97, extra) ELSE Rep(97, ConsoleMaxChars) \o FullRows(n - 1, extra)

WideOutputs ==
    {<<>>,
     Rep(<<97>>, 3),
     Rep(<<97>>, 17),
     <<FullRows(8, 0), FullRows(8, 0)>>,
     <<FullRows(15, 1)>>}

\* the exec-only entries of the list
ExecEntries ==
    {i \in 0..(Len(list_entries) - 1) :
        LET item == list_entries[i + 1]
        IN  /\ item.type = "app"
            /\ ReadableMeta(fs, item.path)
            /\ fs[item.path].meta.module = ""
            /\ fs[item.path].meta.exec /= ""}

\* after the dispatch of CENTER on an exec entry of D (lines 1118-1123)
InitConsole ==
    /\ ld = LdIdle /\ ra = RaIdle /\ gps = GpsIdle
    /\ KbdIdle
    /\ pc = "draw"
    /\ prev_button_states = AllReleased
    /\ polled = AllReleased
    /\ since_input = 0
    /\ since_clock = 0
    /\ drawn = <<>>
    /\ fs = AppsTree
    /\ root_entries = LoadRootMenuEntries(AppsTree)
    /\ state = STATE_CONSOLE
    /\ selected_root_index = 0
    /\ current_dir = <<NameD>>
    /\ current_dir_name = root_entries[1].display_name
    /\ list_entries = LoadListEntries(AppsTree, <<NameD>>)
    /\ selected_list_index \in ExecEntries
    /\ list_scroll = 0
    /\ shown = [state |-> STATE_LIST_VIEW,
                content |-> <<list_entries, selected_list_index, list_scroll,
                              current_dir_name>>]
    /\ current_app = NoApp
    /\ current_app_module = NoApp
    /\ selected_option_index = 0
    /\ keyboard_mode = NoMode
    /\ keyboard_target = NoEntry
    /\ console_lines \in WideOutputs
    /\ console_scroll = 0
    /\ ops = 0
    /\ ev = "CENTER"
    /\ pre_state = STATE_LIST_VIEW
    /\ pre_ops = 0
    /\ at_open = NoOpen
    /\ typed = <<>>
    /\ last_op = NoOp
    /\ menu_dirty = FALSE
    /\ list_dirty = FALSE
    /\ options_dirty = TRUE
    /\ keyboard_dirty = TRUE
    /\ console_dirty = TRUE
    /\ calls = <<"run_app">>
    /\ continued = FALSE

\* lines 1010-1254 in Console with the events of E, or with no event
ConsoleInput(E) ==
    /\ pc = "input"
    /\ drawn' = <<>>
    /\ UNCHANGED <<prev_button_states, polled, since_input, since_clock, shown>>
    /\ pc' = "draw"
    /\ \/ InConsole(E)
       \/ /\ "None" \in E
          /\ ev' = "None"
          /\ pre_state' = state
          /\ pre_ops' = ops
          /\ calls' = <<>>
          /\ continued' = FALSE
          /\ UNCHANGED <<state, root_entries, selected_root_index, dirvars,
                         listvars, appvars, selected_option_index, sessvars,
                         consvars, fs, ops, at_open, typed, last_op, dirtyvars,
                         kbvars, ld, ra, gps>>

\* what the user of the console does in an iteration: scrolls, or nothing
ScrollEvents == {"DOWN", "None", "UP"}

ConsoleScrolls == ConsoleInput(ScrollEvents)

NextConsole == ConsoleScrolls \/ TickDraw

SpecConsole == InitConsole /\ [][NextConsole]_vars

\* the user who only scrolls down
SweepEvents == {"DOWN"}

ConsoleSweeps == ConsoleInput(SweepEvents)

NextSweep == ConsoleSweeps \/ TickDraw

SpecSweep == InitConsole /\ [][NextSweep]_vars /\ WF_vars(NextSweep)

(***************************************************************************)
(* SpecRoots: the main menu over menu directories of 0 to MaxRoots         *)
(* folders, the first of them holding one descriptor.                      *)
(***************************************************************************)
MaxRoots == 7

\* the folders a/, b/, ... (k of them) and a/x.app, which starts nothing
RootsTree(k) ==
    [p \in {<<<<96 + i>>>> : i \in 1..k} |-> Folder(NoMeta)] @@
    [p \in {q \in {<<<<97>>, <<120>> \o DotApp>>} : k > 0} |->
        AppFile(Meta(TRUE, None, TRUE, NoPrio, "", ""))]

InitRoots ==
    /\ \E k \in 0..MaxRoots : MainInit(RootsTree(k))
    /\ LoopInit(AllReleased) /\ KbdIdle /\ ld = LdIdle /\ ra = RaIdle /\ gps = GpsIdle

\* the list view of a user who does not open Options
BrowseEvents == Events \ {"KEY2"}

OnListViewBrowse == InListView(BrowseEvents) /\ UNCHANGED loopvars

NextRoots == OnScreensaver \/ OnMainMenu \/ OnListViewBrowse

SpecRoots == InitRoots /\ [][NextRoots]_vars

(***************************************************************************)
(* SpecGps: a GpsApp instance entered and then polled, on every output of  *)
(* gpspipe of at most MaxLines lines.                                      *)
(***************************************************************************)
InitGps ==
    /\ gps = GpsNew
    /\ ld = LdIdle
    /\ ra = RaIdle
    /\ KbdIdle
    /\ MainInit(MenuTree)
    /\ LoopInit(AllReleased)

\* one poll on the output out, with the status before it and the output
\* kept for the record
Polled(g, out) ==
    [QueryGps(g, out) EXCEPT !.pc = "polled", !.pre_status = g.status, !.out = out]

\* on_enter(), lines 187-201
GpsOnEnter ==
    /\ gps.pc = "new"
    /\ \E out \in GpsOutputs : gps' = Polled(GpsNew, out)
    /\ UNCHANGED <<kbvars, ld, ra, mainvars>>

\* update(dt) when the sample interval has passed, lines 212-221
GpsUpdate ==
    /\ gps.pc = "polled"
    /\ gps.raised = ""
    /\ \E out \in GpsOutputs : gps' = Polled(gps, out)
    /\ UNCHANGED <<kbvars, ld, ra, mainvars>>

NextGps == GpsOnEnter \/ GpsUpdate

SpecGps == InitGps /\ [][NextGps]_vars

(***************************************************************************)
(* SpecLoader: one call of load_app on every input.                        *)
(***************************************************************************)
InitLoader ==
    /\ \E ok \in BOOLEAN, attrs \in SeqsUpTo(AttrKinds, MaxAttrs) :
          ld = [LdIdle EXCEPT !.pc = "call", !.import_ok = ok, !.attrs = attrs]
    /\ ra = RaIdle /\ gps = GpsIdle
    /\ KbdIdle
    /\ MainInit(MenuTree)
    /\ LoopInit(AllReleased)

LoaderCall ==
    /\ ld.pc = "call"
    /\ ld' = [ld EXCEPT !.pc = "done", !.out = LoadApp(ld.import_ok, ld.attrs)]
    /\ UNCHANGED <<kbvars, ra, gps, mainvars>>

NextLoader == LoaderCall

SpecLoader == InitLoader /\ [][NextLoader]_vars

(***************************************************************************)
(* Claims about the Options actions and the navigation of the shell.       *)
(***************************************************************************)
\* the last iteration of the main loop finished an operation of this kind
JustFinished(kind) == ops = pre_ops + 1 /\ last_op.kind = kind

\* the last iteration confirmed a rename session with the on-screen return
\* key, the session having only appended characters, at least one and no
\* space, and the operating system having carried the rename out
RenamedByTyping ==
    /\ JustFinished(KB_MODE_RENAME)
    /\ ev = "CENTER"
    /\ last_op.typed /= None
    /\ Len(last_op.typed) >= 1
    /\ last_op.io = "ok"

C4_EmptyNameCreatesNothing ==
    (/\ JustFinished(KB_MODE_NEW_FOLDER)
     /\ ev \in {"KEY2", "CENTER"}
     /\ \A i \in 1..Len(last_op.text) : last_op.text[i] = 32) =>
        /\ fs = last_op.before.fs
        /\ state = STATE_LIST_VIEW
        /\ list_entries = last_op.before.entries
        /\ selected_list_index = last_op.before.selected
        /\ list_scroll = last_op.before.scroll

\* C4 witness: a Create-folder session confirmed with the return key on the
\* text " " has left the file system as it was.
C4_Witness ==
    /\ JustFinished(KB_MODE_NEW_FOLDER)
    /\ ev = "CENTER"
    /\ last_op.text = <<32>>
    /\ state = STATE_LIST_VIEW
    /\ fs = last_op.before.fs

\* C5: Delete over a list of N >= 1 entries with selection i, the deletion
\* succeeding, yields ListView with the reloaded list of N-1 entries without
\* the selected entry, selection min(i, max(0, N-2)) and scroll
\* min(old scroll, new selection).
C5_DeleteClampsSelection ==
    LET N == Len(last_op.before.entries)
        i == last_op.before.selected
    IN  (JustFinished("delete") /\ last_op.io = "ok" /\ N >= 1) =>
            /\ state = STATE_LIST_VIEW
            /\ last_op.target = last_op.before.entries[i + 1]
            /\ list_entries = LoadListEntries(fs, current_dir)
            /\ Len(list_entries) = N - 1
            /\ \A k \in 1..Len(list_entries) : list_entries[k].path /= last_op.target.path
            /\ selected_list_index = Min(i, Max(0, N - 2))
            /\ list_scroll = Min(last_op.before.scroll, selected_list_index)

\* C5 witness: the last of nine entries deleted with the list scrolled by
\* two: eight entries, selection 7, scroll 2.
C5_Witness ==
    /\ JustFinished("delete")
    /\ last_op.io = "ok"
    /\ Len(last_op.before.entries) = 9
    /\ last_op.before.selected = 8
    /\ last_op.before.scroll = 2
    /\ Len(list_entries) = 8
    /\ selected_list_index = 7
    /\ list_scroll = 2

\* C6: a KEY3 event in MainMenu leads to Screensaver, in ListView (at any
\* folder depth) to MainMenu, in OptionsMenu to ListView, and to no other
\* state.
C6_BackOneLevel ==
    ev = "KEY3" =>
        /\ pre_state = STATE_MAIN_MENU => state = STATE_SCREENSAVER
        /\ pre_state = STATE_LIST_VIEW => state = STATE_MAIN_MENU
        /\ pre_state = STATE_OPTIONS_MENU => state = STATE_LIST_VIEW

\* C6 witness: KEY3 in the list view of a subfolder has led to MainMenu.
C6_Witness ==
    /\ ev = "KEY3"
    /\ pre_state = STATE_LIST_VIEW
    /\ state = STATE_MAIN_MENU
    /\ Len(current_dir) = 2

\* the keyboard with the cursor moved onto the on-screen return key
OnReturnKey(k) ==
    LET r == Len(Rows(k))
    IN  [k EXCEPT !.cursor_row = r - 1,
                  !.cursor_col = (CHOOSE c \in 1..Len(Rows(k)[r]) :
                                      Rows(k)[r][c] = LblReturn) - 1]

\* C11: in KeyboardInput, for every session kind and every session text,
\* finishing with the on-screen return key (engine result "done") has the
\* outcome of pressing KEY2 and conversely: the same rename or create
\* effect, the same reloaded list, the same clamped selection and scroll,
\* session kind and target cleared, state ListView.
C11_EnterEqualsKey2 ==
    [][(state = STATE_KEYBOARD /\ ops' = ops + 1 /\ ev' \in {"KEY2", "CENTER"}) =>
          /\ ev' = "KEY2" =>
                LET r == HandleEvent(OnReturnKey(kb), "CENTER")
                IN  r.ret[1] = "done" /\ KeyboardDone(r.ret[2])
          /\ ev' = "CENTER" => KeyboardConfirm(kb.text)
          /\ state' = STATE_LIST_VIEW
          /\ keyboard_mode' = NoMode
          /\ keyboard_target' = NoEntry
          /\ list_entries' = LoadListEntries(fs', current_dir)
          /\ selected_list_index' = Min(selected_list_index, Max(0, Len(list_entries') - 1))
          /\ list_scroll' = Min(list_scroll, selected_list_index')
      ]_vars

\* C11 witness: a Create-folder session with the text "q" finished with the
\* on-screen return key has added one folder to the list.
C11_Witness ==
    /\ JustFinished(KB_MODE_NEW_FOLDER)
    /\ ev = "CENTER"
    /\ last_op.text = <<113>>
    /\ last_op.io = "ok"
    /\ state = STATE_LIST_VIEW
    /\ Len(list_entries) = Len(last_op.before.entries) + 1

\* C12: a KEY3 event in KeyboardInput discards the session: the state
\* becomes ListView, no rename and no folder creation is applied whatever
\* the text, the entry list, selection and scroll are unchanged, and the
\* session kind and target are cleared.
C12_Key3DiscardsSession ==
    (ev = "KEY3" /\ pre_state = STATE_KEYBOARD) =>
        /\ state = STATE_LIST_VIEW
        /\ fs = last_op.before.fs
        /\ list_entries = last_op.before.entries
        /\ selected_list_index = last_op.before.selected
        /\ list_scroll = last_op.before.scroll
        /\ keyboard_mode = NoMode
        /\ keyboard_target = NoEntry

\* C12 witness: a rename session of the folder "R" whose text had become
\* "Rq" was left with KEY3 and the folder is still listed as "R".
C12_Witness ==
    /\ ev = "KEY3"
    /\ pre_state = STATE_KEYBOARD
    /\ last_op.kind = "cancel"
    /\ last_op.target.display_name = <<82>>
    /\ last_op.text = <<82, 113>>
    /\ state = STATE_LIST_VIEW
    /\ \E i \in 1..Len(list_entries) : list_entries[i].display_name = <<82>>

(***************************************************************************)
(* Claims about read_buttons, checked under SpecInput.                     *)
(***************************************************************************)
\* control name was read released on the previous poll and pressed on this one
Activated(name) == polled[name] = 1 /\ prev_button_states[name] = 0

\* C13: read_buttons yields at most one event per poll, and an event naming
\* control X only on a poll where X was read released (1) on the previous
\* poll and pressed (0) on this one; a control held pressed across polls
\* produces no further event until it has been read released again.
C13_EventOnlyOnPressEdge ==
    /\ ev \in Events \cup {"None"}
    /\ ev /= "None" => Activated(ev)
    /\ \A name \in Events : (polled[name] = 0 /\ prev_button_states[name] = 0) => ev /= name

\* C13 witness: UP is held over two polls while DOWN is pressed: the event
\* is DOWN.
C13_Witness ==
    /\ polled["UP"] = 0
    /\ prev_button_states["UP"] = 0
    /\ Activated("DOWN")
    /\ ev = "DOWN"

\* C14: every activation of a control (read released on one poll and pressed
\* on the next) yields an event naming that control, for every combination
\* of controls activated between the same two polls.
C14_EveryActivationYieldsEvent ==
    \A name \in Events : Activated(name) => ev = name

(***************************************************************************)
(* Claims about the iteration of the main loop, checked under SpecTick.    *)
(***************************************************************************)
\* the step from the dispatch to the end of the iteration
DrawStep == pc = "draw" /\ pc' = "input"

\* C15: idle policy: in an iteration where the state after dispatch is not
\* Screensaver and the time since the last input event exceeds
\* IDLE_TIMEOUT, the state is Screensaver at the end of the iteration; the
\* idle transition never fires in an iteration that dispatched an event;
\* and while the threshold is not exceeded the state changes only through
\* input events.
C15_IdlePolicy ==
    [][/\ DrawStep =>
            /\ (state /= STATE_SCREENSAVER /\ since_input > IDLE_TIMEOUT) =>
                   state' = STATE_SCREENSAVER
            /\ ev /= "None" => (since_input = 0 /\ state' = state)
            /\ since_input <= IDLE_TIMEOUT => state' = state
       /\ (pc = "input" /\ ev' = "None") => state' = state
      ]_vars

\* C15 witness: the hosted app was running when an iteration without event
\* found the timeout exceeded: the state is Screensaver.
C15_Witness ==
    /\ pc = "input"
    /\ ev = "None"
    /\ pre_state = STATE_APP
    /\ since_input > IDLE_TIMEOUT
    /\ state = STATE_SCREENSAVER

\* the draw step of this iteration has called routine
Drew(log, routine) == \E i \in 1..Len(log) : log[i] = routine

\* C16: redraw policy: in an iteration the draw routine of MainMenu,
\* ListView, OptionsMenu, KeyboardInput or Console is invoked only if that
\* state is the active state after dispatch and its dirty flag is set, and
\* the invocation clears the flag; Screensaver is drawn only when at least
\* one second has passed since its last draw; RunningApp is drawn in every
\* iteration.
C16_RedrawPolicy ==
    [][DrawStep =>
          /\ Drew(drawn', "draw_main_menu") =>
                 (state = STATE_MAIN_MENU /\ menu_dirty /\ ~menu_dirty')
          /\ Drew(drawn', "draw_list_view") =>
                 (state = STATE_LIST_VIEW /\ list_dirty /\ ~list_dirty')
          /\ Drew(drawn', "draw_options_menu") =>
                 (state = STATE_OPTIONS_MENU /\ options_dirty /\ ~options_dirty')
          /\ Drew(drawn', "keyboard.draw") =>
                 (state = STATE_KEYBOARD /\ keyboard_dirty /\ ~keyboard_dirty')
          /\ Drew(drawn', "draw_console") =>
                 (state = STATE_CONSOLE /\ console_dirty /\ ~console_dirty')
          /\ Drew(drawn', "draw_screensaver") =>
                 (state' = STATE_SCREENSAVER /\ since_clock >= Second /\ since_clock' = 0)
          /\ state' = STATE_APP => Drew(drawn', "draw")
      ]_vars

\* C16 witness: the keyboard opened by an event has been drawn and its
\* flag cleared.
C16_Witness ==
    /\ pc = "input"
    /\ ev = "CENTER"
    /\ state = STATE_KEYBOARD
    /\ drawn = <<"keyboard.draw">>
    /\ ~keyboard_dirty

\* the step from the start of an iteration to the end of its dispatch
InputStep == pc = "input" /\ pc' = "draw"

\* C17: lifecycle of a hosted mini-app: on_enter is called exactly once, in
\* the iteration in which the state switches to RunningApp and before any
\* on_event, update or draw on the instance; in every iteration whose active
\* state is RunningApp update(dt) and then draw() are each called exactly
\* once, with or without an input event; after on_event returned "exit" no
\* further call is made on the instance.
C17_AppLifecycle ==
    [][/\ InputStep =>
            \* on_enter: exactly in the iteration that switches to RunningApp,
            \* as the only call of the dispatch, on the instance just loaded
            /\ Drew(calls', "on_enter") <=> (state /= STATE_APP /\ state' = STATE_APP)
            /\ Drew(calls', "on_enter") => (calls' = <<"on_enter">> /\ current_app' /= NoApp)
            \* on_event: only on the instance hosted since an earlier iteration
            /\ Drew(calls', "on_event") =>
                   (state = STATE_APP /\ current_app /= NoApp /\ calls' = <<"on_event">>)
            \* after "exit" the instance is gone
            /\ (state = STATE_APP /\ ev' /= "None"
                    /\ AppOnEvent(current_app_module, ev') = "exit") =>
                   (state' = STATE_LIST_VIEW /\ current_app' = NoApp)
            /\ state' = STATE_APP => current_app' /= NoApp
       /\ DrawStep =>
            /\ state' = STATE_APP => (current_app /= NoApp /\ drawn' = <<"update", "draw">>)
            /\ state' /= STATE_APP => (~Drew(drawn', "update") /\ ~Drew(drawn', "draw"))
      ]_vars

\* C17 witness: the iteration that launched the mini-app called on_enter in
\* the dispatch and update and draw in the draw step.
C17_Witness ==
    /\ pc = "input"
    /\ pre_state = STATE_LIST_VIEW
    /\ state = STATE_APP
    /\ calls = <<"on_enter">>
    /\ drawn = <<"update", "draw">>

(***************************************************************************)
(* Claims about the activation of list entries, checked under SpecApps.    *)
(***************************************************************************)
\* the entry under the selection of the list view
SelectedItem == list_entries[selected_list_index + 1]

\* the step is a CENTER activation in the list view on an entry of type t
ActivatesEntry(t) ==
    /\ state = STATE_LIST_VIEW
    /\ ev' = "CENTER"
    /\ list_entries /= <<>>
    /\ SelectedItem.type = t

\* load_app returns an instance for the module
Loads(module_name) ==
    LET m == InstalledModule(module_name)
        app == LoadApp(m.import_ok, m.attrs)
    IN  app.raised = "" /\ app.value /= "none"

\* C25: activating an app entry in the list view: if its descriptor has a
\* module that loads, the state becomes RunningApp with that instance
\* hosted; if it has no module but an exec command, the command is run and
\* the state becomes Console with scroll 0; if both module and exec are
\* present, module drives the transition and the exec command is never run.
C25_AppActivation ==
    [][(ActivatesEntry("app") /\ ReadableMeta(fs, SelectedItem.path)) =>
          LET meta == fs[SelectedItem.path].meta
          IN  /\ (meta.module /= "" /\ Loads(meta.module)) =>
                     /\ state' = STATE_APP
                     /\ current_app' /= NoApp
                     /\ current_app_module' = meta.module
              /\ (meta.module = "" /\ meta.exec /= "") =>
                     /\ state' = STATE_CONSOLE
                     /\ calls' = <<"run_app">>
                     /\ console_scroll' = 0
              /\ (meta.module /= "" /\ meta.exec /= "") =>
                     /\ ~Drew(calls', "run_app")
                     /\ state' = IF Loads(meta.module) THEN STATE_APP ELSE STATE_LIST_VIEW
                     /\ UNCHANGED consvars
      ]_vars

\* C25 witness: c.app, with module and exec, was activated after the console
\* had been scrolled: the mini-app runs and the console is as it was.
C25_Witness ==
    /\ pre_state = STATE_LIST_VIEW
    /\ ev = "CENTER"
    /\ state = STATE_APP
    /\ SelectedItem.path = <<NameD, <<99>> \o DotApp>>
    /\ calls = <<"on_enter">>
    /\ console_scroll = 1

\* the exec command of b.app was run from a console scrolled before
C25_WitnessConsole ==
    /\ pre_state = STATE_LIST_VIEW
    /\ ev = "CENTER"
    /\ state = STATE_CONSOLE
    /\ SelectedItem.path = <<NameD, <<98>> \o DotApp>>
    /\ calls = <<"run_app">>
    /\ console_scroll = 0
    /\ list_scroll = 0

\* C26: activating a folder entry in the list view keeps the state ListView,
\* replaces the current directory and its displayed name with the selected
\* folder, loads that folder's entries, and resets both selection and scroll
\* to 0.
C26_FolderActivation ==
    [][ActivatesEntry("folder") =>
          /\ state' = STATE_LIST_VIEW
          /\ current_dir' = SelectedItem.path
          /\ current_dir_name' = SelectedItem.display_name
          /\ fs' = fs
          /\ list_entries' = LoadListEntries(fs, current_dir')
          /\ \A i \in 1..Len(list_entries') :
                 /\ Dirname(list_entries'[i].path) = current_dir'
                 /\ Exists(fs, list_entries'[i].path)
          /\ Len(list_entries') = Cardinality(ListDir(fs, current_dir'))
          /\ selected_list_index' = 0
          /\ list_scroll' = 0
      ]_vars

\* C26 witness: the folder s/ was entered from the last row of a list
\* scrolled by one: the list shows h.app of D/s/ under the name "Sub".
C26_Witness ==
    /\ pre_state = STATE_LIST_VIEW
    /\ ev = "CENTER"
    /\ state = STATE_LIST_VIEW
    /\ current_dir = <<NameD, <<115>>>>
    /\ current_dir_name = <<83, 117, 98>>
    /\ Len(list_entries) = 1
    /\ list_entries[1].path = <<NameD, <<115>>, <<104>> \o DotApp>>
    /\ selected_list_index = 0
    /\ list_scroll = 0

\* C29: confirming a rename session (KEY2 or the on-screen return key) whose
\* final text T is not empty after trimming, for any T that can be typed on
\* the keyboard (Latin or Cyrillic letters, digits, symbols, spaces), results
\* in the target entry being listed with the display name T (trimmed) after
\* the reload, the operating system having carried the rename out.
C29_RenameListsTypedText ==
    (/\ JustFinished(KB_MODE_RENAME)
     /\ ev \in {"KEY2", "CENTER"}
     /\ last_op.io = "ok"
     /\ Strip(last_op.text) /= <<>>) =>
        /\ state = STATE_LIST_VIEW
        /\ list_entries = LoadListEntries(fs, current_dir)
        /\ \E i \in 1..Len(list_entries) :
              /\ list_entries[i].type = last_op.target.type
              /\ list_entries[i].display_name = Strip(last_op.text)

(***************************************************************************)
(* Claims about the list selection, checked under SpecEdit.                *)
(***************************************************************************)
\* C28: in every reachable state, after any sequence of events including the
\* list reloads after delete, rename and create,
\* 0 <= list_scroll <= selected_list_index, selected_list_index <
\* len(list_entries) whenever the list is not empty (and selected = scroll =
\* 0 when it is empty), and the selected row is inside the visible window:
\* selected_list_index < list_scroll + 7.
C28_ListSelection ==
    /\ 0 <= list_scroll
    /\ list_scroll <= selected_list_index
    /\ list_entries /= <<>> => selected_list_index < Len(list_entries)
    /\ list_entries = <<>> => (selected_list_index = 0 /\ list_scroll = 0)
    /\ selected_list_index < list_scroll + 7

\* C28 witness: the last row of the scrolled list was deleted and the
\* selection was clamped onto the new last row.
C28_Witness ==
    /\ last_op.kind = "delete"
    /\ last_op.io = "ok"
    /\ last_op.before.selected = 8
    /\ last_op.before.scroll = 2
    /\ state = STATE_LIST_VIEW
    /\ Len(list_entries) = 8
    /\ selected_list_index = 7
    /\ list_scroll = 2

\* a folder was created from the last row of the scrolled list
C28_WitnessCreate ==
    /\ last_op.kind = KB_MODE_NEW_FOLDER
    /\ last_op.io = "ok"
    /\ state = STATE_LIST_VIEW
    /\ Len(list_entries) = 10
    /\ selected_list_index = 8
    /\ list_scroll = 2

\* an app was renamed from a row of the scrolled list
C28_WitnessRename ==
    /\ last_op.kind = KB_MODE_RENAME
    /\ last_op.io = "ok"
    /\ last_op.typed /= <<>>
    /\ state = STATE_LIST_VIEW
    /\ list_scroll > 0

(***************************************************************************)
(* Claims about the hosted instance, checked under SpecTick.               *)
(***************************************************************************)
\* C30: in every reachable state a hosted app instance is held (current_app
\* is not None) exactly when the state is RunningApp: it is set when entering
\* RunningApp, destroyed when the hosted app signals "exit", and not retained
\* after any other way of leaving RunningApp, including the idle-timeout
\* transition to Screensaver.
C30_AppHeldIffRunning == (current_app /= NoApp) <=> (state = STATE_APP)

(***************************************************************************)
(* Claims about the keyboard engine, checked under SpecKbd.                *)
(***************************************************************************)
InGrid(k) ==
    /\ 0 <= k.cursor_row /\ k.cursor_row < Len(Rows(k))
    /\ 0 <= k.cursor_col /\ k.cursor_col < Len(Rows(k)[k.cursor_row + 1])

OnToggleKey(k) == GetCurrentKeyLabel(k) \in {Lbl123, LblABC}

DropLast(t) == IF t = <<>> THEN <<>> ELSE SubSeq(t, 1, Len(t) - 1)

\* C1: in every reachable state of the keyboard the cursor lies inside the
\* grid of the current mode: 0 <= cursor_row < number of rows and
\* 0 <= cursor_col < length of row cursor_row.
C1_CursorInGrid == InGrid(kb)

\* C2: in every state of a started session the text is no longer than the
\* session's max_len.
C2_TextWithinMaxLen == SessionStarted => Len(kb.text) <= kb.max_len

\* C7: two consecutive CENTER activations that start on the mode toggle key
\* in LettersPrimary or SymbolsNumbers return to the original mode, with
\* text and shift unchanged and the cursor inside the grid, on the toggle key.
C7_ToggleTwiceRestores ==
    (tg.n = 2 /\ tg.origin.mode \in {"letters_en", "num_sym"}) =>
        /\ kb.mode = tg.origin.mode
        /\ kb.text = tg.origin.text
        /\ kb.shift = tg.origin.shift
        /\ InGrid(kb)
        /\ OnToggleKey(kb)
        /\ kb = tg.origin

C7_Witness ==
    /\ tg.n = 2
    /\ tg.origin.mode = "num_sym"
    /\ tg.origin.shift
    /\ tg.origin.text /= <<>>
    /\ kb_op = "CENTER"

\* C8: cycle_language maps letters_en to letters_ru, letters_ru to
\* letters_en and num_sym to letters_en, and the mode is always one of
\* these three values.
C8_LanguageCycle ==
    /\ kb.mode \in {"letters_en", "letters_ru", "num_sym"}
    /\ kb_op = "cycle" =>
        /\ kb_pre.mode = "letters_en" => kb.mode = "letters_ru"
        /\ kb_pre.mode = "letters_ru" => kb.mode = "letters_en"
        /\ kb_pre.mode = "num_sym" => kb.mode = "letters_en"

C8_Witness ==
    /\ kb_op = "cycle"
    /\ kb_pre.mode = "num_sym"
    /\ kb.mode = "letters_en"

\* C9: a CENTER activation on the backspace key removes exactly the last
\* character of a non-empty text and leaves an empty text empty; in both
\* cases it returns "redraw" and leaves mode, shift and cursor unchanged.
C9_Backspace ==
    (kb_op = "CENTER" /\ GetCurrentKeyLabel(kb_pre) = LblBksp) =>
        /\ kb.text = DropLast(kb_pre.text)
        /\ kb_ret = <<"redraw", None>>
        /\ kb = [kb_pre EXCEPT !.text = kb.text]

C9_Witness ==
    /\ kb_op = "CENTER"
    /\ GetCurrentKeyLabel(kb_pre) = LblBksp
    /\ kb_pre.text = <<>>
    /\ kb.text = <<>>
    /\ kb_ret[1] = "redraw"

C9_WitnessNonEmpty ==
    /\ kb_op = "CENTER"
    /\ GetCurrentKeyLabel(kb_pre) = LblBksp
    /\ Len(kb_pre.text) = 2
    /\ Len(kb.text) = 1

\* the key under the cursor of k is the space key or a character key
OnAppendingKey(k) ==
    LET label == GetCurrentKeyLabel(k)
    IN  label = LblSpace \/ (label /= None /\ Len(label) = 1 /\ label /= LblBksp)

\* what the key under the cursor of k appends
Appended(k) == IF GetCurrentKeyLabel(k) = LblSpace THEN <<32>> ELSE GetCurrentKeyLabel(k)

\* C20 (as the claim states it): a CENTER activation on the space key or on
\* a single-character key always signals redraw; it appends exactly the
\* label under the cursor (a literal space for the space key) when
\* len(text) < max_len and leaves the text unchanged when
\* len(text) >= max_len.
C20_AppendAlwaysRedraws ==
    (kb_op = "CENTER" /\ OnAppendingKey(kb_pre)) =>
        /\ kb_ret = <<"redraw", None>>
        /\ kb.text = IF Len(kb_pre.text) < kb_pre.max_len
                      THEN kb_pre.text \o Appended(kb_pre) ELSE kb_pre.text

\* C20 (amended): a CENTER activation on the space key always signals
\* redraw; on a single-character key other than backspace it signals redraw
\* when len(text) < max_len and returns (None, None) when
\* len(text) >= max_len; in both cases it appends exactly the label under
\* the cursor (a literal space for the space key) when len(text) < max_len
\* and leaves the text unchanged otherwise, and it changes nothing else.
C20_AppendOrIgnore ==
    (kb_op = "CENTER" /\ OnAppendingKey(kb_pre)) =>
        LET room == Len(kb_pre.text) < kb_pre.max_len
        IN  /\ kb_ret = IF room \/ GetCurrentKeyLabel(kb_pre) = LblSpace
                        THEN <<"redraw", None>> ELSE <<"none", None>>
            /\ kb.text = IF room THEN kb_pre.text \o Appended(kb_pre) ELSE kb_pre.text
            /\ kb = [kb_pre EXCEPT !.text = kb.text]

\* C20 witness: the key "q" activated on a text that has reached max_len
\* leaves the text as it is and returns (None, None).
C20_Witness ==
    /\ kb_op = "CENTER"
    /\ GetCurrentKeyLabel(kb_pre) = <<113>>
    /\ Len(kb_pre.text) = kb_pre.max_len
    /\ kb_pre.max_len = 2
    /\ kb.text = kb_pre.text
    /\ kb_ret = <<"none", None>>

\* C19: keyboard navigation from a cursor inside the grid: UP and DOWN
\* change the row by exactly 1 unless the cursor is on the first or last
\* row, where the row is unchanged; LEFT and RIGHT change the column by
\* exactly 1 unless the cursor is on the first or last column of its row,
\* where the column is unchanged; nothing wraps around; after a row change
\* col = min(col, length of the new row - 1); and every navigation event
\* returns "redraw".
C19_Navigation ==
    (kb_op \in {"UP", "DOWN", "LEFT", "RIGHT"} /\ InGrid(kb_pre)) =>
        LET rows == Rows(kb_pre)
            last_row == Len(rows) - 1
            last_col == Len(rows[kb_pre.cursor_row + 1]) - 1
            row == kb_pre.cursor_row
            col == kb_pre.cursor_col
        IN  /\ kb_ret = <<"redraw", None>>
            /\ kb = [kb_pre EXCEPT !.cursor_row = kb.cursor_row, !.cursor_col = kb.cursor_col]
            /\ kb_op = "UP" => kb.cursor_row = (IF row = 0 THEN 0 ELSE row - 1)
            /\ kb_op = "DOWN" => kb.cursor_row = (IF row = last_row THEN row ELSE row + 1)
            /\ kb_op \in {"UP", "DOWN"} =>
                   kb.cursor_col = Min(col, Len(rows[kb.cursor_row + 1]) - 1)
            /\ kb_op = "LEFT" => kb.cursor_col = (IF col = 0 THEN 0 ELSE col - 1)
            /\ kb_op = "RIGHT" => kb.cursor_col = (IF col = last_col THEN col ELSE col + 1)
            /\ kb_op \in {"LEFT", "RIGHT"} => kb.cursor_row = row

\* C19 witness: DOWN from the last key of the third letters row (column 6)
\* onto the system row of five keys leaves the cursor on column 4.
C19_Witness ==
    /\ kb_op = "DOWN"
    /\ kb_pre.mode = "letters_en"
    /\ kb_pre.cursor_row = 2
    /\ kb_pre.cursor_col = 6
    /\ kb.cursor_row = 3
    /\ kb.cursor_col = 4
    /\ kb_ret = <<"redraw", None>>

\* C18: start(prompt, initial_text, max_len) always succeeds and, whatever
\* the state left by a previous session, sets mode = letters_en, shift off,
\* cursor = (0, 0), text = initial_text (the empty string when none) and
\* max_len = the given bound; nothing of the previous session's mode, shift,
\* cursor or text survives.
C18_StartResets ==
    kb_op = "start" =>
        /\ kb_args /= NoArgs
        /\ kb = [prompt |-> kb_args.prompt,
                 text |-> IF kb_args.initial_text = None THEN <<>>
                          ELSE kb_args.initial_text,
                 max_len |-> kb_args.max_len,
                 mode |-> "letters_en", shift |-> FALSE,
                 cursor_row |-> 0, cursor_col |-> 0]

\* C18 witness: start without initial text on a keyboard left in the
\* symbols mode with shift on, the cursor away from (0, 0) and a text.
C18_Witness ==
    /\ kb_op = "start"
    /\ kb_args.initial_text = None
    /\ kb_pre.mode = "num_sym"
    /\ kb_pre.shift
    /\ kb_pre.cursor_row > 0
    /\ kb_pre.cursor_col > 0
    /\ kb_pre.text /= <<>>
    /\ kb.text = <<>>
    /\ kb.cursor_row = 0

\* C21: a CENTER activation on the enter key returns ("done", t) where t is
\* the session's current text and changes nothing in the keyboard state; no
\* other key and no navigation event ever returns "done".
C21_EnterReturnsDone ==
    kb_op \in Events =>
        LET on_enter == kb_op = "CENTER" /\ GetCurrentKeyLabel(kb_pre) = LblReturn
        IN  /\ on_enter => (kb_ret = <<"done", kb_pre.text>> /\ kb = kb_pre)
            /\ kb_ret[1] = "done" => on_enter

\* C21 witness: the enter key activated in the symbols mode with shift on
\* and a text of two characters.
C21_Witness ==
    /\ kb_op = "CENTER"
    /\ GetCurrentKeyLabel(kb_pre) = LblReturn
    /\ kb_pre.mode = "num_sym"
    /\ kb_pre.shift
    /\ Len(kb_pre.text) = 2
    /\ kb_ret = <<"done", kb_pre.text>>
    /\ kb = kb_pre

\* C22: activating the mode toggle key in num_sym always yields letters_en,
\* and activating it in letters_en or letters_ru yields num_sym; it never
\* yields letters_ru, which only cycle_language enters; the activation
\* returns "redraw" and leaves the cursor inside the new grid.
C22_ModeToggle ==
    /\ (kb_op = "CENTER" /\ OnToggleKey(kb_pre)) =>
        /\ kb_pre.mode = "num_sym" => kb.mode = "letters_en"
        /\ IsLetters(kb_pre.mode) => kb.mode = "num_sym"
        /\ kb.mode /= "letters_ru"
        /\ kb_ret = <<"redraw", None>>
        /\ InGrid(kb)
    /\ (SessionStarted /\ kb.mode = "letters_ru" /\ kb_pre.mode /= "letters_ru") =>
        kb_op = "cycle"

\* C22 witness: the toggle key activated in letters_ru.
C22_Witness ==
    /\ kb_op = "CENTER"
    /\ OnToggleKey(kb_pre)
    /\ kb_pre.mode = "letters_ru"
    /\ kb.mode = "num_sym"
    /\ kb_ret[1] = "redraw"

\* C23: cycle_language changes neither shift nor text; navigation events
\* change neither text, shift nor mode; Shift and mode toggle activations
\* never change the text.
C23_KeyboardFrames ==
    /\ kb_op = "cycle" => (kb.shift = kb_pre.shift /\ kb.text = kb_pre.text)
    /\ kb_op \in {"UP", "DOWN", "LEFT", "RIGHT"} =>
        /\ kb.text = kb_pre.text
        /\ kb.shift = kb_pre.shift
        /\ kb.mode = kb_pre.mode
    /\ (kb_op = "CENTER" /\ GetCurrentKeyLabel(kb_pre) \in {LblShift, Lbl123, LblABC}) =>
        kb.text = kb_pre.text

\* C23 witness: cycle_language from the symbols mode with shift on and a
\* text typed.
C23_Witness ==
    /\ kb_op = "cycle"
    /\ kb_pre.mode = "num_sym"
    /\ kb_pre.shift
    /\ kb_pre.text /= <<>>
    /\ kb.shift
    /\ kb.text = kb_pre.text

\* str.isupper() of one character of the layouts
IsUpperChar(c) == (c >= 65 /\ c <= 90) \/ (c >= 1040 /\ c <= 1071)

\* C24: a CENTER activation on Shift flips shift in every mode and returns
\* "redraw"; the key grid always has 4 rows whose last row is [mode toggle,
\* Shift, space, backspace, enter]; the labels of the main rows are
\* upper-case exactly when shift is on and the mode is a letters mode; and
\* in num_sym the grid is the same for both values of shift.
C24_ShiftAndGrid ==
    LET rows == Rows(kb)
    IN  /\ (kb_op = "CENTER" /\ GetCurrentKeyLabel(kb_pre) = LblShift) =>
            /\ kb.shift = ~kb_pre.shift
            /\ kb_ret = <<"redraw", None>>
        /\ Len(rows) = 4
        /\ rows[4] = <<IF kb.mode = "num_sym" THEN LblABC ELSE Lbl123,
                       LblShift, LblSpace, LblBksp, LblReturn>>
        /\ \A r \in 1..3 : \A c \in 1..Len(rows[r]) :
               /\ Len(rows[r][c]) = 1
               /\ IsUpperChar(rows[r][c][1]) <=> (kb.shift /\ IsLetters(kb.mode))
        /\ kb.mode = "num_sym" =>
               GetLayoutRows(kb.mode, TRUE) = GetLayoutRows(kb.mode, FALSE)

\* C24 witness: Shift activated in the symbols mode, and Shift on in the
\* Cyrillic letters mode.
C24_Witness ==
    /\ kb_op = "CENTER"
    /\ GetCurrentKeyLabel(kb_pre) = LblShift
    /\ kb_pre.mode = "num_sym"
    /\ ~kb_pre.shift
    /\ kb.shift

C24_WitnessUpper ==
    /\ kb.mode = "letters_ru"
    /\ kb.shift
    /\ Rows(kb)[1][1] = <<1049>>

(***************************************************************************)
(* Claims about run_app, checked under SpecRunApp.                         *)
(***************************************************************************)
\* a call of run_app has ended
RunAppEnded == ra.pc = "done"

\* the call failed to run the command of an exec entry: the descriptor is
\* unreadable, it has no exec, or the command exits with a non-zero status,
\* times out or fails otherwise
RunAppFailed ==
    \/ ra.desc.read /= "object"
    \/ ra.desc.exec = ""
    \/ ra.run.kind /= "ok"

\* C27: run_app never raises, always replaces the console buffer and resets
\* console_scroll to 0; any failure of running an exec entry (unreadable
\* descriptor, missing exec, non-zero exit status, timeout or other
\* execution error) leaves a single-line error entry in the console buffer.
C27_RunAppContract ==
    RunAppEnded =>
        /\ ra.raised = ""
        /\ console_lines = RunApp(ra.desc, ra.run).console_lines
        /\ console_scroll = 0
        /\ RunAppFailed => Len(console_lines) = 1

\* C31: whatever the cursor position before it (including a column beyond
\* the end of the current row), after any single navigation event (UP, DOWN,
\* LEFT or RIGHT) the cursor is inside the active grid; and a CENTER
\* activation while the cursor is outside the grid changes no keyboard state
\* and returns (None, None).
C31_NavigationRepairsCursor ==
    /\ kb_op \in {"UP", "DOWN", "LEFT", "RIGHT"} => InGrid(kb)
    /\ (kb_op = "CENTER" /\ ~InGrid(kb_pre)) =>
           (kb = kb_pre /\ kb_ret = <<"none", None>>)

\* C31 witness: LEFT from column 8 of the third row of letters_en, which has
\* seven keys, puts the cursor on its last key.
C31_Witness ==
    /\ kb_op = "LEFT"
    /\ kb_pre.mode = "letters_en"
    /\ kb_pre.cursor_row = 2
    /\ kb_pre.cursor_col = 8
    /\ ~InGrid(kb_pre)
    /\ kb.cursor_col = 6
    /\ InGrid(kb)

\* CENTER was activated with the cursor outside the grid
C31_WitnessCenter ==
    /\ kb_op = "CENTER"
    /\ ~InGrid(kb_pre)
    /\ kb = kb_pre
    /\ kb_ret = <<"none", None>>

\* the states drawn on their dirty flag
DisplayStates ==
    {STATE_MAIN_MENU, STATE_LIST_VIEW, STATE_OPTIONS_MENU, STATE_KEYBOARD,
     STATE_CONSOLE}

\* the dirty flag of state st
Dirty(st) ==
    IF st = STATE_MAIN_MENU THEN menu_dirty
    ELSE IF st = STATE_LIST_VIEW THEN list_dirty
    ELSE IF st = STATE_OPTIONS_MENU THEN options_dirty
    ELSE IF st = STATE_KEYBOARD THEN keyboard_dirty
    ELSE IF st = STATE_CONSOLE THEN console_dirty
    ELSE FALSE

\* C32: display consistency: at the end of every iteration whose active state
\* is MainMenu, ListView, OptionsMenu, KeyboardInput or Console the dirty flag
\* of that state is clear and the content last drawn is the current substate
\* of that state; and an event that changes the visible substate or enters
\* one of these states leaves the flag set for the draw step of the same
\* iteration.
C32_DisplayConsistency ==
    [][/\ (pc' = "input" /\ state' \in DisplayStates) =>
              (~Dirty(state)' /\ shown' = Screen(state)')
       /\ (InputStep /\ state' \in DisplayStates
              /\ (state' /= state \/ Visible(state)' /= Visible(state))) =>
              Dirty(state)']_vars

\* an iteration has ended in KeyboardInput with typed text on the screen
C32_Witness ==
    /\ pc = "input"
    /\ state = STATE_KEYBOARD
    /\ kb.text /= <<>>
    /\ shown = Screen(STATE_KEYBOARD)
    /\ ~keyboard_dirty

\* an iteration has ended in Console with the output scrolled on the screen
C32_WitnessConsole ==
    /\ pc = "input"
    /\ state = STATE_CONSOLE
    /\ console_scroll > 0
    /\ shown = Screen(STATE_CONSOLE)
    /\ ~console_dirty

\* the frame draw_console makes of the console buffer
ConsoleFrame == DrawConsole(console_lines, console_scroll)

\* C33: in every reachable Console state console_scroll is the index of the
\* first wrapped line drawn: 0 <= console_scroll <= max(0, W - 15) with W the
\* number of display lines after wrapping at 24 characters, so that
\* draw_console has no offset to correct.
C33_ScrollIsFirstVisibleLine ==
    state = STATE_CONSOLE =>
        /\ 0 <= console_scroll
        /\ console_scroll <= Max(0, Len(ConsoleFrame.wrapped) - ConsoleFrame.max_rows)
        /\ ConsoleFrame.start = console_scroll

\* the wrapped line of index i (from 0) is in the window of the last frame
\* drawn of the console
InWindow(i) ==
    /\ shown.state = STATE_CONSOLE
    /\ LET frame == DrawConsole(shown.content[1], shown.content[2])
       IN  frame.start <= i /\ i < frame.end

\* the largest number of wrapped lines of an output
MaxWrapped == 17

\* C34: every wrapped display line of the output shown in Console comes
\* into the visible window under the DOWN events of the user.
C34_EveryLineReachable ==
    \A i \in 0..(MaxWrapped - 1) :
        <>(i >= Len(ConsoleFrame.wrapped) \/ InWindow(i))

\* the number of KEY3 events that lead from state st to Screensaver
KeysToScreensaver(st) ==
    IF st = STATE_SCREENSAVER THEN 0
    ELSE IF st = STATE_MAIN_MENU THEN 1
    ELSE IF st = STATE_LIST_VIEW THEN 2
    ELSE 3

\* C35: from every state other than Screensaver at most three consecutive
\* KEY3 events lead to Screensaver: a KEY3 event in MainMenu gives
\* Screensaver, in ListView MainMenu, and in OptionsMenu, KeyboardInput,
\* Console or RunningApp (the app returning "exit") ListView.
C35_Key3LeadsToScreensaver ==
    [][(ev' = "KEY3" /\ state \notin {STATE_SCREENSAVER, STATE_CRASHED}) =>
           KeysToScreensaver(state') = KeysToScreensaver(state) - 1]_vars

\* KEY3 has led from a keyboard session to ListView, two KEY3 events from
\* Screensaver
C35_Witness ==
    /\ ev = "KEY3"
    /\ pre_state = STATE_KEYBOARD
    /\ state = STATE_LIST_VIEW
    /\ KeysToScreensaver(state) = 2

\* KEY3 has led from a hosted app to ListView
C35_WitnessApp ==
    /\ ev = "KEY3"
    /\ pre_state = STATE_APP
    /\ state = STATE_LIST_VIEW

\* the Options item under the selection
SelectedOption == OPTIONS_ITEMS[selected_option_index + 1]

\* CENTER is dispatched in OptionsMenu over an empty entry list
ActivatesOverEmptyList ==
    /\ state = STATE_OPTIONS_MENU
    /\ list_entries = <<>>
    /\ ev' = "CENTER"

\* C36: in OptionsMenu over an empty entry list "Rename" and "Delete" return
\* to ListView without a keyboard session and without any change of the
\* file system, "Create folder" opens a new-folder keyboard session; the
\* option index stays within 0..3 and is 0 whenever Options is opened.
C36_OptionsOverEmptyList ==
    [][/\ (ActivatesOverEmptyList /\ SelectedOption \in {"Rename", "Delete"}) =>
              /\ state' = STATE_LIST_VIEW
              /\ UNCHANGED <<fs, ops, last_op, kb, sessvars, listvars>>
       /\ (ActivatesOverEmptyList /\ SelectedOption = "Create folder") =>
              /\ state' = STATE_KEYBOARD
              /\ keyboard_mode' = KB_MODE_NEW_FOLDER
              /\ kb' = Start(kb, "New folder", <<>>, 64)
              /\ UNCHANGED <<fs, ops>>
       /\ selected_option_index' \in 0..3
       /\ (state /= STATE_OPTIONS_MENU /\ state' = STATE_OPTIONS_MENU) =>
              selected_option_index' = 0]_vars

\* "Rename" has been activated over the empty list of a folder nothing was
\* deleted from
C36_Witness ==
    /\ ev = "CENTER"
    /\ pre_state = STATE_OPTIONS_MENU
    /\ state = STATE_LIST_VIEW
    /\ list_entries = <<>>
    /\ SelectedOption = "Rename"
    /\ ops = 0

\* "Create folder" has opened a keyboard session over an empty list
C36_WitnessCreate ==
    /\ ev = "CENTER"
    /\ pre_state = STATE_OPTIONS_MENU
    /\ state = STATE_KEYBOARD
    /\ keyboard_mode = KB_MODE_NEW_FOLDER
    /\ list_entries = <<>>

\* Options has been opened over an empty list
C36_WitnessReopened ==
    /\ ev = "KEY2"
    /\ pre_state = STATE_LIST_VIEW
    /\ state = STATE_OPTIONS_MENU
    /\ selected_option_index = 0
    /\ options_dirty
    /\ list_entries = <<>>

\* the selected app entry starts neither a mini-app nor a command: its
\* descriptor cannot be read, or names neither module nor exec, or names a
\* module load_app gives no instance of
StartsNothing ==
    \/ ~ReadableMeta(fs, SelectedItem.path)
    \/ LET meta == fs[SelectedItem.path].meta
       IN  \/ (meta.module = "" /\ meta.exec = "")
           \/ (meta.module /= "" /\ ~Loads(meta.module))

\* C37: activating an app entry whose descriptor cannot be read or parsed,
\* or names neither module nor exec, or names a module that fails to load,
\* leaves the state ListView and the current directory, entry list,
\* selection and scroll unchanged, with no hosted app instance and the
\* console buffer untouched.
C37_FailedActivationChangesNothing ==
    [][(ActivatesEntry("app") /\ StartsNothing) =>
           /\ state' = STATE_LIST_VIEW
           /\ UNCHANGED <<dirvars, listvars, consvars>>
           /\ current_app' = NoApp
           /\ current_app_module' = NoApp]_vars

\* the cell of the 3x2 grid of the main menu next to cell idx in direction
\* e, or idx itself at the edge of the grid
NextCell(idx, e) ==
    IF e = "UP" THEN (IF idx >= 3 THEN idx - 3 ELSE idx)
    ELSE IF e = "DOWN" THEN (IF idx < 3 THEN idx + 3 ELSE idx)
    ELSE IF e = "LEFT" THEN (IF idx \in {0, 3} THEN idx ELSE idx - 1)
    ELSE (IF idx \in {2, 5} THEN idx ELSE idx + 1)

\* an event is dispatched in the main menu
InMainMenuOn(E) == state = STATE_MAIN_MENU /\ ev' \in E

\* C38: with at least one root entry 0 <= selected_root_index <
\* len(root_entries) <= 6 in every state; UP, DOWN, LEFT and RIGHT move to
\* the neighbouring cell of the 3x2 grid without wraparound and are refused
\* when that cell has no entry; CENTER enters ListView only for an existing
\* entry, never without root entries, loading it with selection 0 and
\* scroll 0.
C38_MainMenuSelection ==
    /\ [](/\ Len(root_entries) <= 6
          /\ root_entries /= <<>> =>
                 (0 <= selected_root_index /\ selected_root_index < Len(root_entries)))
    /\ [][/\ \A e \in {"UP", "DOWN", "LEFT", "RIGHT"} :
                 InMainMenuOn({e}) =>
                     /\ state' = STATE_MAIN_MENU
                     /\ selected_root_index' =
                            IF NextCell(selected_root_index, e) < Len(root_entries)
                            THEN NextCell(selected_root_index, e)
                            ELSE selected_root_index
          /\ InMainMenuOn({"CENTER"}) =>
                 IF root_entries = <<>>
                 THEN UNCHANGED <<state, dirvars, listvars>>
                 ELSE /\ state' = STATE_LIST_VIEW
                      /\ current_dir' = root_entries[selected_root_index + 1].path
                      /\ list_entries' = LoadListEntries(fs, current_dir')
                      /\ selected_list_index' = 0
                      /\ list_scroll' = 0]_vars

\* DOWN was refused on the second of four entries: the cell below is empty
C38_Witness ==
    /\ ev = "DOWN"
    /\ pre_state = STATE_MAIN_MENU
    /\ state = STATE_MAIN_MENU
    /\ Len(root_entries) = 4
    /\ selected_root_index = 1

\* CENTER was pressed in a main menu without entries
C38_WitnessEmpty ==
    /\ ev = "CENTER"
    /\ pre_state = STATE_MAIN_MENU
    /\ state = STATE_MAIN_MENU
    /\ root_entries = <<>>

\* the last of six entries, of seven folders, was entered
C38_WitnessEntered ==
    /\ ev = "CENTER"
    /\ pre_state = STATE_MAIN_MENU
    /\ state = STATE_LIST_VIEW
    /\ selected_root_index = 5
    /\ Cardinality(ListDir(fs, <<>>)) = 7

\* the poll failed: no output, no TPV line, a TPV line that does not parse,
\* or lat or lon missing or no number
PollFailed(out) ==
    LET lines == SelectSeq(out, LAMBDA l : l.cls /= "")
    IN  \/ out = <<>>
        \/ FirstTpv(lines) = 0
        \/ LET tpv == lines[FirstTpv(lines)]
           IN  \/ tpv.json = "unparsable"
               \/ tpv.json = "object" /\ (tpv.lat.t /= "number" \/ tpv.lon.t /= "number")

\* C39: after every poll of GpsApp (one that returned) the status is FIX_2D
\* or FIX_3D only if lat and lon are both set, and a poll that failed leaves
\* status SEARCH whatever the status was before.
C39_PollStatus ==
    (gps.pc = "polled" /\ gps.raised = "") =>
        /\ gps.status \in {"FIX_2D", "FIX_3D"} => (gps.lat /= JNone /\ gps.lon /= JNone)
        /\ PollFailed(gps.out) => gps.status = "SEARCH"

(***************************************************************************)
(* Claims about load_app, checked under SpecLoader.                        *)
(***************************************************************************)
\* C10: load_app never raises: for every failure (import fails, no class
\* ending in "App", the constructor failing with any exception for the
\* 3-argument call or the 2-argument retry) it returns None; and the
\* 2-argument constructor is tried only after the 3-argument one failed
\* with a signature mismatch.
C10_LoadAppNeverRaises ==
    ld.pc = "done" =>
        LET cls == FirstApp(ld.attrs)
            failure == \/ ~ld.import_ok
                       \/ cls = 0
                       \/ /\ ld.attrs[cls].c3 /= "ok"
                          /\ ~(ld.attrs[cls].c3 = "TypeError_signature"
                               /\ ld.attrs[cls].c2 = "ok")
        IN  /\ ld.out.raised = ""
            /\ failure => ld.out.value = "none"
            /\ (\E i \in 1..Len(ld.out.calls) : ld.out.calls[i] = 2) =>
                   (ld.out.calls = <<3, 2>> /\ ld.attrs[cls].c3 = "TypeError_signature")

====
